---- MODULE Spec2Model ----
(***************************************************************************)
(* The watch-deploy loop of wrongler's YOLO mode (startYoloMode), with the *)
(* debounce utility it is built on, the notifications and the deployment  *)
(* counter of the YoloOutputFormatter, and the checks main and            *)
(* handleYoloMode make before the loop is entered.                        *)
(*                                                                         *)
(* One step of the model is one callback of the Node event loop run to    *)
(* completion: the synchronous part of a handler together with the        *)
(* promise continuations it makes runnable.  Time passes in ticks of one   *)
(* millisecond.  The state keeps no absolute clock: a timer holds the     *)
(* delay that is left until it fires and an attempt in flight holds the   *)
(* time elapsed since its Date.now() at start, so that Date.now() -       *)
(* startTime is that elapsed time.  A timer fires when its delay has run  *)
(* out, and time does not pass a timer that is due.                       *)
(***************************************************************************)
EXTENDS Integers, Sequences, FiniteSets, TLC

(* ----------------------------- bounds ---------------------------------- *)

\* options.debounceMs, the quiescence window D, in ticks
DebounceMs == 1

\* an attempt is followed for at most MaxLatency ticks in flight (deploy()
\* itself sets no timeout); more than DebounceMs, so that one attempt can
\* outlast two debounce windows
MaxLatency == 2

\* number of external inputs delivered in one session
\* (watch events, key presses, termination signals)
MaxInputs == 3

\* longest command line drawn for the command-line specification
MaxArgs == 3

(* --------------------------- input alphabets --------------------------- *)

\* file paths as character sequences, so that String.includes is computed
SrcPath == <<"s", "r", "c", "/", "a", ".", "t", "s">>
CachePath == <<"/", ".", "w", "r", "a", "n", "g", "l", "e", "r", "/", "t">>
WinCachePath == <<"\\", ".", "w", "r", "a", "n", "g", "l", "e", "r", "\\", "t">>
RelCachePath == <<".", "w", "r", "a", "n", "g", "l", "e", "r", "/", "t">>
OddPath == <<"a", ".", "w", "r", "a", "n", "g", "l", "e", "r">>
Paths == {SrcPath, CachePath, WinCachePath, RelCachePath, OddPath}

WranglerDir == <<".", "w", "r", "a", "n", "g", "l", "e", "r">>
WranglerDirSlash == <<"/">> \o WranglerDir \o <<"/">>
WranglerDirBackslash == <<"\\">> \o WranglerDir \o <<"\\">>

EventKinds == {"change", "add", "unlink"}

Signals == {"SIGINT", "SIGTERM"}

\* where an account id can come from: account_id of the config, the cached
\* id ("" when there is none), and what fetching and selecting an account
\* gives: an id, an empty account list, an error, or a question (login,
\* selection) that is never answered because the input has ended
AccountFinds ==
    [config : {"", "acct-config"}, cache : {"", "acct-cache"},
     fetch : {"selected", "none", "error", "unanswered"}]

\* the account situations of the sessions that are followed through the
\* loop: an id in the config, no id anywhere, or no id and no answer
ConfigAccount == [config |-> "acct-config", cache |-> "", fetch |-> "none"]
NoAccount == [config |-> "", cache |-> "", fetch |-> "none"]
NoAnswer == [config |-> "", cache |-> "", fetch |-> "unanswered"]

\* what a launch finds: wrangler resolvable, a wrangler config, the entry
\* file, a worker name in the config, and the sources of an account id
Launches ==
    [wrangler : BOOLEAN, config : BOOLEAN, entry : BOOLEAN, name : BOOLEAN,
     account : {ConfigAccount, NoAccount, NoAnswer}]

\* the same with every account situation
AccountLaunches ==
    [wrangler : BOOLEAN, config : BOOLEAN, entry : BOOLEAN, name : BOOLEAN,
     account : AccountFinds]

\* the launch of a complete project
FullLaunch ==
    [wrangler |-> TRUE, config |-> TRUE, entry |-> TRUE, name |-> TRUE,
     account |-> ConfigAccount]

\* words of a command line: two commands, a positional word, the flags
\* parseArgs names and one wrangler deploy flag it does not name
ArgTokens ==
    {"deploy", "dev", "w", "--yolo", "--verbose", "-v", "--name", "--env",
     "-e", "--compatibility-date", "--compatibility-flags", "--minify",
     "--no-bundle", "--dry-run", "--config", "-c", "--keep-vars"}

\* process.argv.slice(2), up to MaxArgs words
ArgLists == UNION {[1..n -> ArgTokens] : n \in 0..MaxArgs}

\* words for the command lines parseArgs is followed on alone: the empty
\* word (`wrongler "" deploy`), a command, a positional word, a switch, value
\* flags and a flag parseArgs does not name
ParseTokens ==
    {"", "deploy", "w", "--yolo", "-v", "--name", "-e",
     "--compatibility-flags", "--keep-vars"}

\* process.argv.slice(2) of up to MaxArgs of these words
ParseArgLists == UNION {[1..n -> ParseTokens] : n \in 0..MaxArgs}

\* `deploy --yolo` followed by up to MaxArgs words
YoloArgLists == {<<"deploy", "--yolo">> \o rest : rest \in ArgLists}

\* the command lines of the sessions that are followed through the loop
SessionArgs ==
    {<<"deploy", "--yolo">>,
     <<"deploy", "--yolo", "-v", "--minify">>,
     <<"dev">>}

\* the same and a session whose worker is named by flag
ReportArgs == SessionArgs \cup {<<"deploy", "--yolo", "--name", "w">>}

\* main URLs of the form https://<worker>.<account>.workers.dev<path>
WorkerNames == {"my-worker", "w"}
AccountNames == {"acct"}
UrlPaths == {"", "/", "/api"}
WorkerUrls ==
    {"https://" \o w \o "." \o a \o ".workers.dev" \o p :
        w \in WorkerNames, a \in AccountNames, p \in UrlPaths}

\* lines wrangler deploy may print: the worker URL with and without a
\* path, the version id, noise, a custom domain, and lines on which the
\* patterns of parseWranglerOutput match something other than a worker URL
\* or nothing at all
WranglerLines ==
    {"Uploaded w (1 sec)",
     "  https://my-worker.acct.workers.dev",
     "  https://my-worker.acct.workers.dev/",
     "  https://w.acct.workers.dev/api",
     "Current Version ID: 982b47f4-5d2d-471b-a084-508acc7a2bc4",
     "Version ID: 0a1b2c3d-0000-4000-8000-00000000000f",
     "Version ID: abc123",
     "see https://example.com/a.workers.dev",
     "  https://x.workers.dev.example.com/",
     "  https://api.example.com"}

\* what the wrangler child of a deploy() call writes to stdout and stderr:
\* up to two of these lines
WranglerOutputs ==
    {""} \cup WranglerLines
         \cup {a \o "\n" \o b : a \in WranglerLines, b \in WranglerLines}

\* what the wrangler child of every deploy of a followed session writes
SessionOutput ==
    "  https://my-worker.acct.workers.dev" \o "\n"
        \o "Current Version ID: 982b47f4-5d2d-471b-a084-508acc7a2bc4"

\* the exit code of a child a signal ended, null in the code
NullCode == -1

\* exit codes of a passed-through wrangler
ChildCodes == {NullCode, 0, 1, 2}

\* what becomes of the wrangler child of one deploy() call: wrangler cannot
\* be resolved, the child emits 'error', or it emits 'exit' with a code
DeployChildren ==
    {[kind |-> "unresolvable"], [kind |-> "error"]}
        \cup {[kind |-> "exit", code |-> c] : c \in ChildCodes}

\* the children of the attempts of a followed session
ChildSucceeded == [kind |-> "exit", code |-> 0]
ChildFailed == [kind |-> "exit", code |-> 1]

KeyNames == {"r", "c", "s", "h", "?", "q", "ctrl-c", "x"}

VARIABLES
    pc,              \* position of main and of startYoloMode
    launch,          \* what the process finds; its cache entry is the
                     \* cached id at launch until handleYoloMode reads the
                     \* cache, then the id it read
    argv,            \* process.argv.slice(2)
    deployParams,    \* the DeployParams handed to startYoloMode
    passArgs,        \* arguments of the passed-through wrangler
    accountCache,    \* accountId of the cache file, "" when it has none
    raised,          \* SIGINTs the process has sent itself, not yet handled
    isTTY,           \* process.stdin.isTTY
    verbose,         \* options.verbose
    exitCode,        \* exit status of the process, -1 while it runs
    exitMessage,     \* what formatExitMessage printed
    isDeploying,     \* part_002:34
    pendingDeploy,   \* part_002:35
    stats,           \* part_002:36
    isFirstDeploy,   \* part_002:43
    deploymentCount, \* YoloOutputFormatter.deploymentCount
    deploys,         \* deploy() invocations that have not settled yet, each
                     \* with Date.now() - startTime and what called performDeploy
    timeoutId,       \* debounce: id of the timer created last, 0 = null
    timers,          \* timers created by setTimeout that are still pending
    watcher,         \* "null", "open" or "closed"
    keysAttached,    \* the keypress listener is attached
    cleanups,        \* cleanup() invocations awaiting watcher.close()
    inputs,          \* external inputs delivered so far
    \* observations of the run, read by the properties only
    ev,              \* the event handled by the last step
    notes,           \* the formatDeployStart/Success/Error calls of the
                     \* last step, each with the deployment number it displays
    sinceSignal,     \* ticks since the last debouncedDeploy() call, -1 = none,
                     \* DebounceMs + 1 = longer ago than DebounceMs
    fires,           \* debounce firings so far
    burst,           \* debouncedDeploy() calls of the current or last burst
    absorbed,        \* requests that found the current attempt in flight
    chase,           \* the last completion that had absorbed requests
    unserved,        \* a forwarded watch event no attempt has started after
    tally,           \* the settled attempts: a successes, b failures and
                     \* the sum of their durations
    open,            \* number of the start notification whose outcome
                     \* notification is still to come, 0 = none
    triggers,        \* forwarded watch events and 'r' commands so far
    invoked,         \* the parameter values deploy() has been called with
    report           \* the result the last formatDeploySuccess call was
                     \* given and the detail lines it printed

prog == <<pc, launch, argv, deployParams, passArgs, accountCache, raised,
          isTTY,
          verbose,
          exitCode, exitMessage,
          isDeploying, pendingDeploy, stats, isFirstDeploy,
          deploymentCount, deploys, timeoutId, timers, watcher, keysAttached,
          cleanups, inputs>>

obs == <<ev, notes, sinceSignal, fires, burst, absorbed, chase, unserved, tally,
         open, triggers, invoked, report>>

vars == <<prog, obs>>

\* the command line and what main made of it
cli == <<argv, deployParams, passArgs, accountCache>>

\* the argument of formatDeployStart when performDeploy was called without
\* changedPath, as every call of it is (part_002:119, 140, 167)
NoChange == "undefined"

\* no completion is being followed
NoChase == [k |-> 0, base |-> 0]

(* ------------------------------ helpers -------------------------------- *)

\* String.prototype.includes on character sequences
Includes(s, sub) ==
    \E i \in 0..(Len(s) - Len(sub)) :
        \A j \in 1..Len(sub) : s[i + j] = sub[j]

\* the id setTimeout returns: one that no pending timer has
NewTimerId(ts) ==
    CHOOSE n \in 1..(Cardinality(ts) + 1) : \A t \in ts : t.id # n

\* clearTimeout(id): a no-op for a timer that has fired or was cleared
ClearTimeout(ts, id) == {t \in ts : t.id # id}

\* debounce that never cancels the timer it scheduled before
debounceNoClear(tid, ts, waitMs) ==
    LET id == NewTimerId(ts)
    IN  [timeoutId |-> id, timers |-> ts \cup {[id |-> id, delay |-> waitMs]}]

\* debounce that leaves a pending timer running instead of restarting it
debounceKeepFirst(tid, ts, waitMs) ==
    IF \E x \in ts : x.id = tid
    THEN [timeoutId |-> tid, timers |-> ts]
    ELSE LET id == NewTimerId(ts)
         IN  [timeoutId |-> id, timers |-> ts \cup {[id |-> id, delay |-> waitMs]}]

\* debounce that schedules only while timeoutId is still null
debounceOnce(tid, ts, waitMs) ==
    IF tid # 0
    THEN [timeoutId |-> tid, timers |-> ts]
    ELSE LET id == NewTimerId(ts)
         IN  [timeoutId |-> id, timers |-> ts \cup {[id |-> id, delay |-> waitMs]}]

\* debounce that passes no delay to setTimeout
debounceNoDelay(tid, ts, waitMs) ==
    LET kept == IF tid # 0 THEN ClearTimeout(ts, tid) ELSE ts
        id == NewTimerId(kept)
    IN  [timeoutId |-> id, timers |-> kept \cup {[id |-> id, delay |-> 0]}]

\* the function returned by debounce(func, waitMs): the new values of
\* timeoutId and of the pending timers
debounce(tid, ts, waitMs) ==
    LET kept == IF tid # 0 THEN ClearTimeout(ts, tid) ELSE ts
        id == NewTimerId(kept)
    IN  [timeoutId |-> id, timers |-> kept \cup {[id |-> id, delay |-> waitMs]}]

\* formatDeployStart that numbers attempts in steps of two
formatDeployStartTwice(count) == count + 2

\* YoloOutputFormatter.formatDeployStart: this.deploymentCount++
formatDeployStart(count) == count + 1

\* stats update that counts a failed attempt as a success too
recordOutcomeBothCounters(st, ok, duration) ==
    [successful |-> st.successful + 1,
     failed |-> st.failed + (IF ok THEN 0 ELSE 1),
     totalTime |-> st.totalTime + duration,
     lastDeployTime |-> "Date"]

\* stats update that assigns the duration instead of adding it
recordOutcomeLastDuration(st, ok, duration) ==
    [successful |-> st.successful + (IF ok THEN 1 ELSE 0),
     failed |-> st.failed + (IF ok THEN 0 ELSE 1),
     totalTime |-> duration,
     lastDeployTime |-> "Date"]

\* the stats update of the try block (ok) or of the catch block (~ok)
recordOutcome(st, ok, duration) ==
    [successful |-> st.successful + (IF ok THEN 1 ELSE 0),
     failed |-> st.failed + (IF ok THEN 0 ELSE 1),
     totalTime |-> st.totalTime + duration,
     lastDeployTime |-> "Date"]

\* String.prototype.startsWith on strings
StartsWith(str, prefix) ==
    /\ Len(str) >= Len(prefix)
    /\ SubSeq(str, 1, Len(prefix)) = prefix

\* a || b on strings, "" standing for undefined as well
OrElse(a, b) == IF a # "" THEN a ELSE b

\* String.prototype.indexOf(ch, i) for a one-character ch, 1-based, 0 when
\* ch does not occur
RECURSIVE indexOf(_, _, _)
indexOf(str, ch, i) ==
    IF i > Len(str) THEN 0
    ELSE IF SubSeq(str, i, i) = ch THEN i
    ELSE indexOf(str, ch, i + 1)

\* String.prototype.split(ch) for a one-character ch
RECURSIVE split(_, _)
split(str, ch) ==
    IF indexOf(str, ch, 1) = 0 THEN <<str>>
    ELSE <<SubSeq(str, 1, indexOf(str, ch, 1) - 1)>>
             \o split(SubSeq(str, indexOf(str, ch, 1) + 1, Len(str)), ch)

\* Array.prototype.join(sep)
RECURSIVE join(_, _)
join(parts, sep) ==
    IF parts = <<>> THEN ""
    ELSE IF Len(parts) = 1 THEN parts[1]
    ELSE parts[1] \o sep \o join(Tail(parts), sep)

\* what follows the scheme of an http(s) URL, "" for any other string
afterScheme(str) ==
    IF StartsWith(str, "https://") THEN SubSeq(str, 9, Len(str))
    ELSE IF StartsWith(str, "http://") THEN SubSeq(str, 8, Len(str))
    ELSE ""

\* new URL(str) for strings without port, credentials, query or fragment:
\* ok is FALSE where the constructor throws
parseURL(str) ==
    LET rest == afterScheme(str)
        slash == indexOf(rest, "/", 1)
        host == IF slash = 0 THEN rest ELSE SubSeq(rest, 1, slash - 1)
    IN  IF host = "" \/ indexOf(host, " ", 1) # 0
        THEN [ok |-> FALSE, hostname |-> "", pathname |-> ""]
        ELSE [ok |-> TRUE,
              hostname |-> host,
              pathname |-> IF slash = 0 THEN "/"
                           ELSE SubSeq(rest, slash, Len(rest))]

\* String.prototype.includes
includes(str, sub) ==
    \E i \in 1..(Len(str) - Len(sub) + 1) :
        SubSeq(str, i, i + Len(sub) - 1) = sub

\* the characters \s matches
WhiteSpace == {" ", "\t", "\r", "\n"}

\* the characters [0-9a-f] matches
HexDigits ==
    {"0", "1", "2", "3", "4", "5", "6", "7", "8", "9",
     "a", "b", "c", "d", "e", "f"}

\* the last index of the run of [^\s] characters that starts at i, i - 1
\* when there is none
RECURSIVE runEnd(_, _)
runEnd(str, i) ==
    IF i > Len(str) \/ SubSeq(str, i, i) \in WhiteSpace THEN i - 1
    ELSE runEnd(str, i + 1)

\* /https:\/\/[^\s]+\.workers\.dev[^\s]*/ matches at index p
urlMatchesAt(str, p) ==
    /\ p + 7 <= Len(str)
    /\ SubSeq(str, p, p + 7) = "https://"
    /\ \E q \in (p + 9)..(runEnd(str, p + 8) - 11) :
           SubSeq(str, q, q + 11) = ".workers.dev"

\* match[0] of line.match(/https:\/\/[^\s]+\.workers\.dev[^\s]*/), "" for
\* no match: the leftmost match, extended to the end of its run
urlMatch(str) ==
    LET starts == {p \in 1..Len(str) : urlMatchesAt(str, p)}
    IN  IF starts = {} THEN ""
        ELSE LET p == CHOOSE x \in starts : \A y \in starts : x <= y
             IN  SubSeq(str, p, runEnd(str, p + 8))

\* /[0-9a-f]{8}-[0-9a-f]{4}-[0-9a-f]{4}-[0-9a-f]{4}-[0-9a-f]{12}/ matches
\* at index p
uuidMatchesAt(str, p) ==
    /\ p + 35 <= Len(str)
    /\ \A k \in 0..35 :
           IF k \in {8, 13, 18, 23}
           THEN SubSeq(str, p + k, p + k) = "-"
           ELSE SubSeq(str, p + k, p + k) \in HexDigits

\* match[0] of that pattern, "" for no match
uuidMatch(str) ==
    LET starts == {p \in 1..Len(str) : uuidMatchesAt(str, p)}
    IN  IF starts = {} THEN ""
        ELSE LET p == CHOOSE x \in starts : \A y \in starts : x <= y
             IN  SubSeq(str, p, p + 35)

\* the loop of parseWranglerOutput over lines with url and versionId so far
RECURSIVE parseLines(_, _, _)
parseLines(lines, url, versionId) ==
    IF lines = <<>> THEN [url |-> url, versionId |-> versionId]
    ELSE LET line == Head(lines)
             found == IF includes(line, "https://")
                            /\ includes(line, ".workers.dev")
                      THEN urlMatch(line)
                      ELSE ""
             id == IF includes(line, "Version ID:")
                         \/ includes(line, "Current Version ID:")
                   THEN uuidMatch(line)
                   ELSE ""
         IN  parseLines(Tail(lines),
                        IF found # "" /\ url = "" THEN found ELSE url,
                        IF id # "" THEN id ELSE versionId)

\* parseWranglerOutput: "" for an undefined url or versionId
parseWranglerOutput(output) == parseLines(split(output, "\n"), "", "")

\* what deploy() resolves with when the child that wrote output exits with
\* code 0: targets[0] and versionId; with stdio "inherit" (verbose) nothing
\* is captured and the empty string is parsed
deployResult(output, verb) ==
    parseWranglerOutput(IF verb THEN "" ELSE output)

\* constructVersionUrl returned null
NullUrl == ""

\* an exception leaves constructVersionUrl
Thrown == "<thrown>"

\* constructVersionUrl without its try/catch
constructVersionUrlUncaught(mainUrl, versionId) ==
    LET url == parseURL(mainUrl)
        parts == split(url.hostname, ".")
    IN  IF ~url.ok THEN Thrown
        ELSE IF Len(parts) >= 3 /\ parts[Len(parts) - 1] = "workers"
        THEN "https://" \o split(versionId, "-")[1] \o "-" \o parts[1]
                 \o "." \o join(Tail(parts), ".") \o url.pathname
        ELSE NullUrl

\* constructVersionUrl that puts the whole version id in front
constructVersionUrlWholeId(mainUrl, versionId) ==
    LET url == parseURL(mainUrl)
        parts == split(url.hostname, ".")
    IN  IF ~url.ok THEN NullUrl
        ELSE IF Len(parts) >= 3 /\ parts[Len(parts) - 1] = "workers"
        THEN "https://" \o versionId \o "-" \o parts[1]
                 \o "." \o join(Tail(parts), ".") \o url.pathname
        ELSE NullUrl

\* constructVersionUrl
constructVersionUrl(mainUrl, versionId) ==
    LET url == parseURL(mainUrl)
        parts == split(url.hostname, ".")
    IN  IF ~url.ok THEN NullUrl
        ELSE IF Len(parts) >= 3 /\ parts[Len(parts) - 1] = "workers"
        THEN "https://" \o split(versionId, "-")[1] \o "-" \o parts[1]
                 \o "." \o join(Tail(parts), ".") \o url.pathname
        ELSE NullUrl

\* mainUrl of formatDeploySuccess: workerUrl and targets[0].url are both
\* targets[0] of the deploy result
mainUrlOf(res) == OrElse(res.url, "N/A")

\* the detail lines formatDeploySuccess prints after its headline
formatDeploySuccess(res, verb) ==
    IF verb
    THEN IF res.versionId # "" THEN <<"Version: " \o res.versionId>> ELSE <<>>
    ELSE <<"Worker: " \o mainUrlOf(res)>>
             \o (IF res.versionId = "" THEN <<>>
                 ELSE (IF constructVersionUrl(mainUrlOf(res), res.versionId)
                              # NullUrl
                       THEN <<"Preview: " \o constructVersionUrl(
                                  mainUrlOf(res), res.versionId)>>
                       ELSE <<>>)
                      \o <<"Version: " \o res.versionId>>)

\* whether formatDeploySuccess is left by an exception
formatDeploySuccessThrows(res, verb) ==
    /\ ~verb
    /\ res.versionId # ""
    /\ constructVersionUrl(mainUrlOf(res), res.versionId) = Thrown

\* no formatDeploySuccess call has returned yet
NoReport == [url |-> "", versionId |-> "", lines |-> <<>>]

\* deploy() that resolves on every falsy exit code
deployResolvesFalsy(child) ==
    IF child.kind = "unresolvable" THEN FALSE
    ELSE IF child.kind = "error" THEN FALSE
    ELSE child.code \in {0, NullCode}

\* deploy(): TRUE when the promise resolves, FALSE when it rejects
deployResolves(child) ==
    IF child.kind = "unresolvable" THEN FALSE
    ELSE IF child.kind = "error" THEN FALSE
    ELSE child.code = 0

\* the formatDeploySuccess call performDeploy makes for the result res:
\* what it is given, what it prints and whether it throws
reportOf(res, verb) ==
    [url |-> res.url,
     versionId |-> res.versionId,
     lines |-> formatDeploySuccess(res, verb),
     threw |-> formatDeploySuccessThrows(res, verb)]

\* reportOf for what deploy() resolves with, by output and mode
OutputReports ==
    [out \in WranglerOutputs |->
        [verb \in BOOLEAN |-> reportOf(deployResult(out, verb), verb)]]

\* reportOf for the result of a followed session, in either mode
SessionReports == OutputReports[SessionOutput]

\* outcome message that displays the number of the next deployment
formatDeployOutcomeNext(count, ok) ==
    [kind |-> IF ok THEN "success" ELSE "failure", n |-> count + 1]

\* formatDeploySuccess / formatDeployError: the call and the deployment
\* number its message displays
formatDeployOutcome(count, ok) ==
    [kind |-> IF ok THEN "success" ELSE "failure", n |-> count]

\* nothing printed by formatExitMessage yet
NoExitMessage == [count |-> -1, withStats |-> FALSE, stats |-> <<>>]

\* formatExitMessage(stats): the deployment count, and the statistics when
\* an attempt has settled
formatExitMessage(count, st) ==
    IF st.successful > 0 \/ st.failed > 0
    THEN [count |-> count, withStats |-> TRUE, stats |-> st]
    ELSE [count |-> count, withStats |-> FALSE, stats |-> <<>>]

\* file-change display that is suppressed in condensed mode instead
showsFileChangeCondensed(kind, deploying, verb) ==
    ~deploying \/ verb

\* whether the handler of a watch event calls formatFileChange
showsFileChange(kind, deploying, verb) ==
    kind # "change" \/ ~deploying \/ ~verb

\* the ParsedArgs parseArgs starts from: a field that is undefined in the
\* code is "", FALSE or <<>> here (the code only tests these fields for
\* truthiness, and compatibilityFlags is never left empty once created)
EmptyParsed ==
    [command |-> "", entryPoint |-> "", name |-> "", env |-> "",
     compatibilityDate |-> "", compatibilityFlags |-> <<>>,
     minify |-> FALSE, noBundle |-> FALSE, dryRun |-> FALSE,
     verbose |-> FALSE, yolo |-> FALSE, config |-> "",
     remainingArgs |-> <<>>]

\* the while loop of parseArgs from index i (1-based) with parsed = p
RECURSIVE parseFrom(_, _, _)
parseFrom(args, i, p) ==
    IF i > Len(args) THEN p
    ELSE LET arg == args[i]
             hasValue == i + 1 <= Len(args)
         IN  IF ~StartsWith(arg, "-")
             THEN parseFrom(args, i + 1,
                      IF p.command = ""
                      THEN [p EXCEPT !.command = arg]
                      ELSE IF p.entryPoint = "" /\ p.command = "deploy"
                      THEN [p EXCEPT !.entryPoint = arg]
                      ELSE [p EXCEPT !.remainingArgs = Append(@, arg)])
             ELSE IF arg = "--yolo"
             THEN parseFrom(args, i + 1, [p EXCEPT !.yolo = TRUE])
             ELSE IF arg \in {"--verbose", "-v"}
             THEN parseFrom(args, i + 1, [p EXCEPT !.verbose = TRUE])
             ELSE IF arg = "--name"
             THEN parseFrom(args, i + 2,
                      IF hasValue THEN [p EXCEPT !.name = args[i + 1]] ELSE p)
             ELSE IF arg \in {"--env", "-e"}
             THEN parseFrom(args, i + 2,
                      IF hasValue THEN [p EXCEPT !.env = args[i + 1]] ELSE p)
             ELSE IF arg = "--compatibility-date"
             THEN parseFrom(args, i + 2,
                      IF hasValue
                      THEN [p EXCEPT !.compatibilityDate = args[i + 1]]
                      ELSE p)
             ELSE IF arg = "--compatibility-flags"
             THEN parseFrom(args, i + 2,
                      IF hasValue
                      THEN [p EXCEPT !.compatibilityFlags =
                                         Append(@, args[i + 1])]
                      ELSE p)
             ELSE IF arg = "--minify"
             THEN parseFrom(args, i + 1, [p EXCEPT !.minify = TRUE])
             ELSE IF arg = "--no-bundle"
             THEN parseFrom(args, i + 1, [p EXCEPT !.noBundle = TRUE])
             ELSE IF arg = "--dry-run"
             THEN parseFrom(args, i + 1, [p EXCEPT !.dryRun = TRUE])
             ELSE IF arg \in {"--config", "-c"}
             THEN parseFrom(args, i + 2,
                      IF hasValue THEN [p EXCEPT !.config = args[i + 1]] ELSE p)
             ELSE parseFrom(args, i + 1,
                      [p EXCEPT !.remainingArgs = Append(@, arg)])

\* parseArgs
parseArgs(args) == parseFrom(args, 1, EmptyParsed)

\* loadConfig(projectRoot) of a launch that finds a wrangler.toml: the
\* fields handleYoloMode reads
loadConfig(l) ==
    [name |-> IF l.name THEN "toml-worker" ELSE "",
     main |-> "",
     compatibility_date |-> "2024-01-01",
     compatibility_flags |-> <<>>,
     account_id |-> l.account.config]

\* process.cwd()
ProjectRoot == "/proj"

\* path.resolve(root, p) for an absolute root and a path without ".."
resolvePath(root, p) ==
    IF StartsWith(p, "/") THEN p
    ELSE IF StartsWith(p, "./") THEN root \o "/" \o SubSeq(p, 3, Len(p))
    ELSE root \o "/" \o p

\* the id selectAccount returns
SelectedAccount == "acct-selected"

\* the ids other users of the package put in the cache
CacheIds == {"acct-cache"}

\* the account id handleYoloMode ends up with and where it came from; id ""
\* where it calls process.exit(1) instead or is never resumed
resolveAccount(l) ==
    IF loadConfig(l).account_id # ""
    THEN [id |-> loadConfig(l).account_id, source |-> "config"]
    ELSE IF l.account.cache # ""
    THEN [id |-> l.account.cache, source |-> "cache"]
    ELSE IF l.account.fetch = "selected"
    THEN [id |-> SelectedAccount, source |-> "selected"]
    ELSE [id |-> "", source |-> l.account.fetch]

\* the DeployParams before handleYoloMode has built them
NoDeployParams ==
    [entry |-> "", name |-> "", env |-> "", compatibilityDate |-> "",
     compatibilityFlags |-> <<>>, minify |-> FALSE, noBundle |-> FALSE,
     dryRun |-> FALSE, verbose |-> FALSE, accountId |-> ""]

\* the deployParams literal of handleYoloMode, in the fields deploy() or
\* startYoloMode read
buildDeployParams(parsed, l) ==
    [entry |-> resolvePath(ProjectRoot,
                           OrElse(parsed.entryPoint,
                                  OrElse(loadConfig(l).main,
                                         "./src/index.ts"))),
     name |-> OrElse(parsed.name, loadConfig(l).name),
     env |-> parsed.env,
     compatibilityDate |-> OrElse(parsed.compatibilityDate,
                                  loadConfig(l).compatibility_date),
     compatibilityFlags |-> IF parsed.compatibilityFlags # <<>>
                            THEN parsed.compatibilityFlags
                            ELSE loadConfig(l).compatibility_flags,
     minify |-> parsed.minify,
     noBundle |-> parsed.noBundle,
     dryRun |-> parsed.dryRun,
     verbose |-> parsed.verbose,
     accountId |-> resolveAccount(l).id]

\* the --compatibility-flags pairs deploy() pushes, one per flag
RECURSIVE compatibilityFlagArgs(_)
compatibilityFlagArgs(flags) ==
    IF flags = <<>> THEN <<>>
    ELSE <<"--compatibility-flags", Head(flags)>>
             \o compatibilityFlagArgs(Tail(flags))

\* the argument list deploy() spawns wrangler with
deployArgs(params) ==
    <<"deploy", params.entry>>
        \o (IF params.name # "" THEN <<"--name", params.name>> ELSE <<>>)
        \o (IF params.env # "" THEN <<"--env", params.env>> ELSE <<>>)
        \o (IF params.compatibilityDate # ""
            THEN <<"--compatibility-date", params.compatibilityDate>>
            ELSE <<>>)
        \o compatibilityFlagArgs(params.compatibilityFlags)
        \o (IF params.minify THEN <<"--minify">> ELSE <<>>)
        \o (IF params.noBundle THEN <<"--no-bundle">> ELSE <<>>)
        \o (IF params.dryRun THEN <<"--dry-run">> ELSE <<>>)

\* handleYoloMode that starts without a worker name
handleYoloModeDefaultName(parsed, l) ==
    IF ~l.config THEN "noConfig"
    ELSE IF ~l.entry THEN "noEntry"
    ELSE IF resolveAccount(l).source = "unanswered" THEN "unanswered"
    ELSE IF resolveAccount(l).id = "" THEN "noAccount"
    ELSE "start"

\* handleYoloMode up to its call of startYoloMode
handleYoloMode(parsed, l) ==
    IF ~l.config THEN "noConfig"
    ELSE IF ~l.entry THEN "noEntry"
    ELSE IF OrElse(parsed.name, loadConfig(l).name) = "" THEN "noName"
    ELSE IF resolveAccount(l).source = "unanswered" THEN "unanswered"
    ELSE IF resolveAccount(l).id = "" THEN "noAccount"
    ELSE "start"

\* main that enters YOLO mode for any command given with --yolo
mainAnyCommand(args, l) ==
    IF ~l.wrangler THEN "noWrangler"
    ELSE IF parseArgs(args).yolo
    THEN handleYoloMode(parseArgs(args), l)
    ELSE "passThrough"

\* main(): the wrangler check, then the routing of the command
main(args, l) ==
    IF ~l.wrangler THEN "noWrangler"
    ELSE IF parseArgs(args).command = "deploy" /\ parseArgs(args).yolo
    THEN handleYoloMode(parseArgs(args), l)
    ELSE "passThrough"

\* the function in the watcher's `ignored` option (the glob patterns of the
\* list are matched by chokidar and are not modelled)
Ignored(filePath) ==
    Includes(filePath, WranglerDirSlash) \/ Includes(filePath, WranglerDirBackslash)

(* -------------------------------- Init --------------------------------- *)

\* the state of a process launched with one of the command lines argvs in
\* one of the situations launches
InitWith(argvs, launches, ttys) ==
    /\ pc = "main"
    /\ launch \in launches
    /\ argv \in argvs
    /\ deployParams = NoDeployParams
    /\ passArgs = <<>>
    /\ accountCache = launch.account.cache
    /\ raised = 0
    /\ invoked = {}
    /\ report = NoReport
    /\ isTTY \in ttys
    /\ verbose = FALSE
    /\ exitCode = -1
    /\ exitMessage = NoExitMessage
    /\ notes = <<>>
    /\ isDeploying = FALSE
    /\ pendingDeploy = FALSE
    /\ stats = [successful |-> 0, failed |-> 0, totalTime |-> 0, lastDeployTime |-> "undefined"]
    /\ isFirstDeploy = TRUE
    /\ deploymentCount = 0
    /\ deploys = <<>>
    /\ timeoutId = 0
    /\ timers = {}
    /\ watcher = "null"
    /\ keysAttached = FALSE
    /\ cleanups = 0
    /\ inputs = 0
    /\ ev = [type |-> "init", arg |-> "none"]
    /\ sinceSignal = -1
    /\ fires = 0
    /\ burst = 0
    /\ absorbed = 0
    /\ chase = NoChase
    /\ unserved = FALSE
    /\ tally = [a |-> 0, b |-> 0, time |-> 0]
    /\ open = 0
    /\ triggers = 0

\* a process launched with one of the session command lines
Init == InitWith(SessionArgs, Launches, BOOLEAN)

\* a process launched in a complete project with any short command line
CliInit == InitWith(ArgLists \cup YoloArgLists, {FullLaunch}, {FALSE})

\* a process launched in a complete project with a short command line that
\* may hold empty words
ParseInit == InitWith(ParseArgLists, {FullLaunch}, {FALSE})

(* ------------------------------ operations ----------------------------- *)

\* debouncedDeploy(): one call of the debounced function
debouncedDeploy ==
    LET d == debounce(timeoutId, timers, DebounceMs)
    IN  /\ timeoutId' = d.timeoutId
        /\ timers' = d.timers
        /\ sinceSignal' = 0
        /\ burst' = IF timers # {} THEN burst + 1 ELSE 1

\* performDeploy without the isDeploying check
performDeployUnguarded(cause) ==
    /\ isDeploying' = TRUE
    /\ pendingDeploy' = FALSE
    /\ deploymentCount' = formatDeployStart(deploymentCount)
    /\ notes' = <<[kind |-> "start",
                   n |-> formatDeployStart(deploymentCount),
                        change |-> NoChange]>>
    /\ open' = formatDeployStart(deploymentCount)
    /\ UNCHANGED report
    /\ invoked' = invoked \cup {deployParams}
    /\ deploys' = Append(deploys, [elapsed |-> 0, cause |-> cause])
    /\ absorbed' = 0
    /\ unserved' = FALSE

\* performDeploy that does not clear pendingDeploy when an attempt starts
performDeployKeepPending(cause) ==
    IF isDeploying
    THEN /\ pendingDeploy' = TRUE
         /\ absorbed' = absorbed + 1
         /\ notes' = <<>>
         /\ UNCHANGED <<isDeploying, deploymentCount, deploys, unserved, open,
                        invoked, report>>
    ELSE /\ isDeploying' = TRUE
         /\ pendingDeploy' = pendingDeploy
         /\ deploymentCount' = formatDeployStart(deploymentCount)
         /\ notes' = <<[kind |-> "start",
                        n |-> formatDeployStart(deploymentCount),
                        change |-> NoChange]>>
         /\ open' = formatDeployStart(deploymentCount)
         /\ UNCHANGED report
         /\ invoked' = invoked \cup {deployParams}
         /\ deploys' = Append(deploys, [elapsed |-> 0, cause |-> cause])
         /\ absorbed' = 0
         /\ unserved' = FALSE

\* performDeploy that forgets a request made while an attempt is in flight
performDeployForgetful(cause) ==
    IF isDeploying
    THEN /\ absorbed' = absorbed + 1
         /\ notes' = <<>>
         /\ UNCHANGED <<pendingDeploy, isDeploying, deploymentCount, deploys,
                        unserved, open, invoked, report>>
    ELSE /\ isDeploying' = TRUE
         /\ pendingDeploy' = FALSE
         /\ deploymentCount' = formatDeployStart(deploymentCount)
         /\ notes' = <<[kind |-> "start",
                        n |-> formatDeployStart(deploymentCount),
                        change |-> NoChange]>>
         /\ open' = formatDeployStart(deploymentCount)
         /\ UNCHANGED report
         /\ invoked' = invoked \cup {deployParams}
         /\ deploys' = Append(deploys, [elapsed |-> 0, cause |-> cause])
         /\ absorbed' = 0
         /\ unserved' = FALSE

\* performDeploy that announces an attempt before the isDeploying check
performDeployAnnounceFirst(cause) ==
    IF isDeploying
    THEN /\ pendingDeploy' = TRUE
         /\ deploymentCount' = formatDeployStart(deploymentCount)
         /\ notes' = <<[kind |-> "start",
                        n |-> formatDeployStart(deploymentCount),
                        change |-> NoChange]>>
         /\ open' = formatDeployStart(deploymentCount)
         /\ absorbed' = absorbed + 1
         /\ UNCHANGED <<isDeploying, deploys, unserved, invoked, report>>
    ELSE /\ isDeploying' = TRUE
         /\ pendingDeploy' = FALSE
         /\ deploymentCount' = formatDeployStart(deploymentCount)
         /\ notes' = <<[kind |-> "start",
                        n |-> formatDeployStart(deploymentCount),
                        change |-> NoChange]>>
         /\ open' = formatDeployStart(deploymentCount)
         /\ UNCHANGED report
         /\ invoked' = invoked \cup {deployParams}
         /\ deploys' = Append(deploys, [elapsed |-> 0, cause |-> cause])
         /\ absorbed' = 0
         /\ unserved' = FALSE

\* performDeploy that passes dryRun for every attempt after the first
performDeployDryReruns(cause) ==
    IF isDeploying
    THEN /\ pendingDeploy' = TRUE
         /\ absorbed' = absorbed + 1
         /\ notes' = <<>>
         /\ UNCHANGED <<isDeploying, deploymentCount, deploys, unserved, open,
                        invoked, report>>
    ELSE /\ isDeploying' = TRUE
         /\ pendingDeploy' = FALSE
         /\ deploymentCount' = formatDeployStart(deploymentCount)
         /\ notes' = <<[kind |-> "start",
                        n |-> formatDeployStart(deploymentCount),
                        change |-> NoChange]>>
         /\ open' = formatDeployStart(deploymentCount)
         /\ UNCHANGED report
         /\ invoked' = invoked \cup
                {[deployParams EXCEPT !.dryRun = deploymentCount > 0]}
         /\ deploys' = Append(deploys, [elapsed |-> 0, cause |-> cause])
         /\ absorbed' = 0
         /\ unserved' = FALSE

\* performDeploy(), up to its await of deploy(deployParams); cause names the
\* caller and is only recorded
performDeploy(cause) ==
    IF isDeploying
    THEN /\ pendingDeploy' = TRUE
         /\ absorbed' = absorbed + 1
         /\ notes' = <<>>
         /\ UNCHANGED <<isDeploying, deploymentCount, deploys, unserved, open,
                        invoked, report>>
    ELSE /\ isDeploying' = TRUE
         /\ pendingDeploy' = FALSE
         /\ deploymentCount' = formatDeployStart(deploymentCount)
         /\ notes' = <<[kind |-> "start",
                        n |-> formatDeployStart(deploymentCount),
                        change |-> NoChange]>>
         /\ open' = formatDeployStart(deploymentCount)
         /\ UNCHANGED report
         /\ invoked' = invoked \cup {deployParams}
         /\ deploys' = Append(deploys, [elapsed |-> 0, cause |-> cause])
         /\ absorbed' = 0
         /\ unserved' = FALSE

\* whether handleYoloMode calls getCachedAccountId(): nothing has ended it
\* before and the config has no account id
readsCache(args, l) ==
    /\ main(args, l) \in {"start", "noAccount", "unanswered"}
    /\ loadConfig(l).account_id = ""

\* what the process has found once main() returns or first awaits: the
\* cached id is the one in the cache file when getCachedAccountId() runs
found(args, l, cached) ==
    IF readsCache(args, l) THEN [l EXCEPT !.account.cache = cached] ELSE l

\* whether handleYoloMode gets to fetch the accounts: nothing has ended it
\* before and neither the config nor the cache has an account id
awaitsAccounts(args, l) ==
    /\ readsCache(args, l)
    /\ l.account.cache = ""

\* what main() has done when it returns or first awaits: the route taken,
\* or the wait for getAccountsWithLogin and selectAccount
Main ==
    /\ pc = "main"
    /\ launch' = found(argv, launch, accountCache)
    /\ IF awaitsAccounts(argv, launch')
       THEN /\ pc' = "accounts"
            /\ ev' = [type |-> "main", arg |-> "accounts"]
            /\ UNCHANGED <<exitCode, deployParams, verbose, passArgs>>
       ELSE /\ pc' = IF main(argv, launch') \in {"start", "passThrough"}
                     THEN main(argv, launch')
                     ELSE "exited"
            /\ exitCode' = IF main(argv, launch') \in {"start", "passThrough"}
                           THEN exitCode
                           ELSE 1
            /\ deployParams' = IF main(argv, launch') = "start"
                               THEN buildDeployParams(parseArgs(argv), launch')
                               ELSE deployParams
            /\ verbose' = IF main(argv, launch') = "start"
                          THEN parseArgs(argv).verbose
                          ELSE verbose
            /\ passArgs' = IF main(argv, launch') = "passThrough"
                           THEN argv
                           ELSE passArgs
            /\ ev' = [type |-> "main", arg |-> main(argv, launch')]
    /\ notes' = <<>>
    /\ UNCHANGED <<argv, accountCache, raised, isTTY, exitMessage,
                   isDeploying, pendingDeploy, stats, isFirstDeploy,
                   deploymentCount, deploys, timeoutId, timers, watcher,
                   keysAttached, cleanups, inputs, sinceSignal, fires, burst,
                   absorbed, chase, unserved, tally, open, invoked, report,
                   triggers>>

\* handleYoloMode resumed after the accounts were fetched and one selected:
\* the selection is cached and the loop started, or, with no account or an
\* error, process.exit(1)
AccountsFetched ==
    /\ pc = "accounts"
    /\ main(argv, launch) # "unanswered"
    /\ pc' = IF main(argv, launch) = "start" THEN "start" ELSE "exited"
    /\ exitCode' = IF main(argv, launch) = "start" THEN exitCode ELSE 1
    /\ deployParams' = IF main(argv, launch) = "start"
                       THEN buildDeployParams(parseArgs(argv), launch)
                       ELSE deployParams
    /\ verbose' = IF main(argv, launch) = "start"
                  THEN parseArgs(argv).verbose
                  ELSE verbose
    /\ accountCache' = IF main(argv, launch) = "start"
                       THEN resolveAccount(launch).id
                       ELSE accountCache
    /\ ev' = [type |-> "accounts", arg |-> main(argv, launch)]
    /\ notes' = <<>>
    /\ UNCHANGED <<launch, argv, passArgs, raised, isTTY, exitMessage,
                   isDeploying, pendingDeploy, stats, isFirstDeploy,
                   deploymentCount, deploys, timeoutId, timers, watcher,
                   keysAttached, cleanups, inputs, sinceSignal, fires, burst,
                   absorbed, chase, unserved, tally, open, invoked, report,
                   triggers>>

\* the question of ensureLoggedIn or selectAccount gets no answer because
\* the input has ended: rl.question never settles, handleYoloMode is never
\* resumed, and the runtime, left with nothing to wait for, ends the process
\* with status 0
InputEnded ==
    /\ pc = "accounts"
    /\ main(argv, launch) = "unanswered"
    /\ pc' = "exited"
    /\ exitCode' = 0
    /\ ev' = [type |-> "accounts", arg |-> "unanswered"]
    /\ notes' = <<>>
    /\ UNCHANGED <<launch, cli, raised, isTTY, verbose, exitMessage,
                   isDeploying, pendingDeploy, stats, isFirstDeploy,
                   deploymentCount, deploys, timeoutId, timers, watcher,
                   keysAttached, cleanups, inputs, sinceSignal, fires, burst,
                   absorbed, chase, unserved, tally, open, invoked, report,
                   triggers>>

\* setCachedAccountId(id) called by another user of the package, at any
\* time
SetCachedAccountId(id) ==
    /\ inputs < MaxInputs
    /\ inputs' = inputs + 1
    /\ accountCache' = id
    /\ ev' = [type |-> "cache", arg |-> "set"]
    /\ notes' = <<>>
    /\ UNCHANGED <<pc, launch, argv, deployParams, passArgs, raised, isTTY,
                   verbose, exitCode, exitMessage, isDeploying, pendingDeploy,
                   stats, isFirstDeploy, deploymentCount, deploys, timeoutId,
                   timers, watcher, keysAttached, cleanups, sinceSignal,
                   fires, burst, absorbed, chase, unserved, tally, open,
                   invoked, report, triggers>>

\* clearCache() called in the same way
ClearCache ==
    /\ inputs < MaxInputs
    /\ inputs' = inputs + 1
    /\ accountCache' = ""
    /\ ev' = [type |-> "cache", arg |-> "clear"]
    /\ notes' = <<>>
    /\ UNCHANGED <<pc, launch, argv, deployParams, passArgs, raised, isTTY,
                   verbose, exitCode, exitMessage, isDeploying, pendingDeploy,
                   stats, isFirstDeploy, deploymentCount, deploys, timeoutId,
                   timers, watcher, keysAttached, cleanups, sinceSignal,
                   fires, burst, absorbed, chase, unserved, tally, open,
                   invoked, report, triggers>>

\* passThroughWrangler: the 'exit' listener of the spawned wrangler
ChildExit(code) ==
    /\ pc = "passThrough"
    /\ pc' = "exited"
    /\ exitCode' = IF code = NullCode THEN 0 ELSE code
    /\ ev' = [type |-> "childExit", arg |-> "code", code |-> code]
    /\ notes' = <<>>
    /\ UNCHANGED <<launch, cli, raised, isTTY, verbose, exitMessage, isDeploying,
                   pendingDeploy, stats, isFirstDeploy, deploymentCount,
                   deploys, timeoutId, timers, watcher, keysAttached,
                   cleanups, inputs, sinceSignal, fires, burst, absorbed,
                   chase, unserved, tally, open, triggers, invoked, report>>

\* passThroughWrangler: the 'error' listener of the spawned wrangler
ChildError ==
    /\ pc = "passThrough"
    /\ pc' = "exited"
    /\ exitCode' = 1
    /\ ev' = [type |-> "childError", arg |-> "none"]
    /\ notes' = <<>>
    /\ UNCHANGED <<launch, cli, raised, isTTY, verbose, exitMessage, isDeploying,
                   pendingDeploy, stats, isFirstDeploy, deploymentCount,
                   deploys, timeoutId, timers, watcher, keysAttached,
                   cleanups, inputs, sinceSignal, fires, burst, absorbed,
                   chase, unserved, tally, open, triggers, invoked, report>>

\* SIGINT or SIGTERM while wrangler is passed through, while handleYoloMode
\* awaits the accounts or while startYoloMode awaits the initial
\* performDeploy(): no listener is registered for it, and the default action
\* of the runtime ends the process with status 128 + signal number
Killed(sig) ==
    /\ pc \in {"passThrough", "accounts", "initialDeploy"}
    /\ inputs < MaxInputs
    /\ inputs' = inputs + 1
    /\ pc' = "exited"
    /\ exitCode' = IF sig = "SIGINT" THEN 130 ELSE 143
    /\ ev' = [type |-> "signal", arg |-> "default"]
    /\ notes' = <<>>
    /\ UNCHANGED <<launch, cli, raised, isTTY, verbose, exitMessage, isDeploying, invoked, report,
                   pendingDeploy, stats, isFirstDeploy, deploymentCount,
                   deploys, timeoutId, timers, watcher, keysAttached,
                   cleanups, sinceSignal, fires, burst, absorbed,
                   chase, unserved, tally, open, invoked, report, triggers>>

\* the remainder of startYoloMode once the awaited initial performDeploy()
\* has settled: key listener, watcher, signal handlers
ArmSession ==
    /\ pc' = "watching"
    /\ keysAttached' = isTTY
    /\ watcher' = "open"

\* startYoloMode that does not await the initial performDeploy()
InitialDeployNoAwait ==
    /\ pc = "start"
    /\ performDeploy("initial")
    /\ ArmSession
    /\ ev' = [type |-> "initial", arg |-> "none"]
    /\ UNCHANGED <<isTTY, stats, isFirstDeploy, timeoutId, timers,
                   cleanups, inputs, sinceSignal, fires,
                   burst, chase,
                   launch, cli, raised, verbose, exitCode, exitMessage, tally, triggers>>

\* startYoloMode up to `await performDeploy()`
InitialDeploy ==
    /\ pc = "start"
    /\ pc' = "initialDeploy"
    /\ performDeploy("initial")
    /\ ev' = [type |-> "initial", arg |-> "none"]
    /\ UNCHANGED <<isTTY, stats, isFirstDeploy, timeoutId, timers, watcher,
                   keysAttached, cleanups, inputs, sinceSignal, fires,
                   burst, chase,
                   launch, cli, raised, verbose, exitCode, exitMessage, tally, triggers>>

\* completion that schedules another attempt after a failure
DeploySettledRetries(i, ok) ==
    /\ pc \in {"initialDeploy", "watching", "closing"}
    /\ i \in 1..Len(deploys)
    /\ notes' = <<formatDeployOutcome(deploymentCount, ok)>>
    /\ open' = 0
    /\ UNCHANGED invoked
    /\ report' = IF ok
                 THEN [url |-> SessionReports[verbose].url,
                       versionId |-> SessionReports[verbose].versionId,
                       lines |-> SessionReports[verbose].lines]
                 ELSE report
    /\ stats' = recordOutcome(stats, ok, deploys[i].elapsed)
    /\ tally' = [a |-> tally.a + (IF ok THEN 1 ELSE 0),
                 b |-> tally.b + (IF ok THEN 0 ELSE 1),
                 time |-> tally.time + deploys[i].elapsed]
    /\ isFirstDeploy' = (isFirstDeploy /\ ~ok)
    /\ deploys' = SubSeq(deploys, 1, i - 1) \o SubSeq(deploys, i + 1, Len(deploys))
    /\ isDeploying' = FALSE
    /\ IF pendingDeploy \/ ~ok
       THEN debouncedDeploy
       ELSE UNCHANGED <<timeoutId, timers, sinceSignal, burst>>
    /\ IF pc = "initialDeploy"
       THEN ArmSession
       ELSE UNCHANGED <<pc, keysAttached, watcher>>
    /\ ev' = [type |-> "settled", arg |-> IF ok THEN "ok" ELSE "failed",
              child |-> IF ok THEN ChildSucceeded ELSE ChildFailed]
    /\ chase' = IF absorbed >= 1
                THEN [k |-> absorbed, base |-> deploymentCount]
                ELSE chase
    /\ UNCHANGED <<isTTY, pendingDeploy, deploymentCount, cleanups, inputs,
                   fires, absorbed, unserved,
                   launch, cli, raised, verbose, exitCode, exitMessage, triggers>>

\* performDeploy() resumed when its deploy() call settles: the rest of the
\* try block or the catch block, then the finally block; child is what
\* became of the wrangler child and shown the formatDeploySuccess call for
\* the result when deploy() resolved
DeploySettledWith(i, child, shown) ==
    LET ok == deployResolves(child)
        done == deployResolves(child) /\ ~shown.threw IN
    /\ pc \in {"initialDeploy", "watching", "closing"}
    /\ i \in 1..Len(deploys)
    /\ notes' = <<formatDeployOutcome(deploymentCount, done)>>
    /\ open' = 0
    /\ UNCHANGED invoked
    /\ report' = IF done
                 THEN [url |-> shown.url, versionId |-> shown.versionId,
                       lines |-> shown.lines]
                 ELSE report
    /\ stats' = recordOutcome(stats, done, deploys[i].elapsed)
    /\ tally' = [a |-> tally.a + (IF done THEN 1 ELSE 0),
                 b |-> tally.b + (IF done THEN 0 ELSE 1),
                 time |-> tally.time + deploys[i].elapsed]
    /\ isFirstDeploy' = (isFirstDeploy /\ ~done)
    /\ deploys' = SubSeq(deploys, 1, i - 1) \o SubSeq(deploys, i + 1, Len(deploys))
    /\ isDeploying' = FALSE
    /\ IF pendingDeploy
       THEN debouncedDeploy
       ELSE UNCHANGED <<timeoutId, timers, sinceSignal, burst>>
    /\ IF pc = "initialDeploy"
       THEN ArmSession
       ELSE UNCHANGED <<pc, keysAttached, watcher>>
    /\ ev' = [type |-> "settled", arg |-> IF ok THEN "ok" ELSE "failed",
              child |-> child]
    /\ chase' = IF absorbed >= 1
                THEN [k |-> absorbed, base |-> deploymentCount]
                ELSE chase
    /\ UNCHANGED <<isTTY, pendingDeploy, deploymentCount, cleanups, inputs,
                   fires, absorbed, unserved,
                   launch, cli, raised, verbose, exitCode, exitMessage, triggers>>

\* the completion of an attempt of a followed session
DeploySettled(i, ok) ==
    DeploySettledWith(i, IF ok THEN ChildSucceeded ELSE ChildFailed,
                      SessionReports[verbose])

\* the callback debounce() hands to setTimeout: func.apply(this, args),
\* where func is () => { void performDeploy(); }
TimerFired ==
    /\ pc # "exited"
    /\ \E t \in timers :
        /\ t.delay = 0
        /\ timers' = timers \ {t}
    /\ performDeploy("fired")
    /\ fires' = fires + 1
    /\ ev' = [type |-> "fired", arg |-> "none"]
    /\ UNCHANGED <<pc, isTTY, stats, isFirstDeploy, timeoutId, watcher,
                   keysAttached, cleanups, inputs, sinceSignal, burst, chase,
                   launch, cli, raised, verbose, exitCode, exitMessage, tally, triggers>>

\* handlers that lack the check for ".wrangler" in the path
WatchEventUnchecked(kind, filePath) ==
    /\ watcher = "open"
    /\ pc = "watching"
    /\ inputs < MaxInputs
    /\ inputs' = inputs + 1
    /\ IF Ignored(filePath)
       THEN /\ ev' = [type |-> kind, arg |-> "ignored", shown |-> FALSE,
                      path |-> filePath]
            /\ UNCHANGED <<timeoutId, timers, sinceSignal, burst, chase, unserved,
                           triggers>>
       ELSE /\ ev' = [type |-> kind, arg |-> "forwarded",
                      shown |-> showsFileChange(kind, isDeploying, verbose),
                      path |-> filePath]
            /\ debouncedDeploy
            /\ chase' = NoChase
            /\ unserved' = TRUE
            /\ triggers' = triggers + 1
    /\ UNCHANGED <<pc, isTTY, isDeploying, pendingDeploy, stats,
                   isFirstDeploy, deploymentCount, deploys, watcher,
                   keysAttached, cleanups, fires, absorbed,
                   launch, cli, raised, verbose, exitCode, exitMessage, tally, open, invoked, report>>
    /\ notes' = <<>>

\* a change of the file at filePath reaches the watcher: dropped by the
\* `ignored` function, or handed to watcher.on("change" | "add" | "unlink")
WatchEvent(kind, filePath) ==
    /\ watcher = "open"
    /\ pc = "watching"
    /\ inputs < MaxInputs
    /\ inputs' = inputs + 1
    /\ IF Ignored(filePath)
       THEN /\ ev' = [type |-> kind, arg |-> "ignored", shown |-> FALSE,
                      path |-> filePath]
            /\ UNCHANGED <<timeoutId, timers, sinceSignal, burst, chase, unserved,
                           triggers>>
       ELSE IF Includes(filePath, WranglerDir)
       THEN /\ ev' = [type |-> kind, arg |-> "skipped", shown |-> FALSE,
                      path |-> filePath]
            /\ UNCHANGED <<timeoutId, timers, sinceSignal, burst, chase, unserved,
                           triggers>>
       ELSE /\ ev' = [type |-> kind, arg |-> "forwarded",
                      shown |-> showsFileChange(kind, isDeploying, verbose),
                      path |-> filePath]
            /\ debouncedDeploy
            /\ chase' = NoChase
            /\ unserved' = TRUE
            /\ triggers' = triggers + 1
    /\ UNCHANGED <<pc, isTTY, isDeploying, pendingDeploy, stats,
                   isFirstDeploy, deploymentCount, deploys, watcher,
                   keysAttached, cleanups, fires, absorbed,
                   launch, cli, raised, verbose, exitCode, exitMessage, tally, open, invoked, report>>
    /\ notes' = <<>>

\* error handler that gives up watching
WatchErrorStops ==
    /\ watcher = "open"
    /\ pc = "watching"
    /\ ev' = [type |-> "watchError", arg |-> "none"]
    /\ notes' = <<>>
    /\ watcher' = "closed"
    /\ UNCHANGED <<pc, launch, cli, raised, isTTY, verbose, exitCode, exitMessage,
                   isDeploying, pendingDeploy, stats, isFirstDeploy,
                   deploymentCount, deploys, timeoutId, timers, keysAttached,
                   cleanups, inputs, sinceSignal, fires, burst, absorbed,
                   chase, unserved, tally, open, invoked, report, triggers>>

\* watcher.on("error")
WatchError ==
    /\ watcher = "open"
    /\ pc = "watching"
    /\ ev' = [type |-> "watchError", arg |-> "none"]
    /\ notes' = <<>>
    /\ UNCHANGED <<prog, sinceSignal, fires, burst, absorbed, chase, unserved,
                   tally, open, invoked, report, triggers>>

\* cleanup() up to `await watcher.close()`
cleanup ==
    /\ pc' = "closing"
    /\ IF watcher # "null"
       THEN /\ watcher' = "closed"
            /\ cleanups' = cleanups + 1
       ELSE UNCHANGED <<watcher, cleanups>>

\* process.on("SIGINT" | "SIGTERM"): the listener runs for a signal from
\* outside, or (own) for a SIGINT the keypress handler has sent
Signalled(own) ==
    /\ pc \in {"watching", "closing"}
    /\ IF own
       THEN /\ raised > 0
            /\ raised' = raised - 1
            /\ UNCHANGED inputs
       ELSE /\ inputs < MaxInputs
            /\ inputs' = inputs + 1
            /\ UNCHANGED raised
    /\ cleanup
    /\ ev' = [type |-> "signal", arg |-> IF own THEN "own" ELSE "none"]
    /\ chase' = NoChase
    /\ UNCHANGED <<isTTY, isDeploying, pendingDeploy, stats, isFirstDeploy,
                   deploymentCount, deploys, timeoutId, timers, keysAttached,
                   sinceSignal, fires, burst, absorbed, unserved,
                   launch, cli, verbose, exitCode, exitMessage, tally, open,
                   invoked, report, triggers>>
    /\ notes' = <<>>

\* cleanup() resumed without process.exit: every invocation prints its own
\* final report
CleanupDoneEach ==
    /\ pc = "closing"
    /\ cleanups > 0
    /\ watcher' = "null"
    /\ cleanups' = cleanups - 1
    /\ exitMessage' = formatExitMessage(deploymentCount, stats)
    /\ exitCode' = IF cleanups = 1 THEN 0 ELSE exitCode
    /\ pc' = IF cleanups = 1 THEN "exited" ELSE pc
    /\ ev' = [type |-> "exit", arg |-> "0"]
    /\ UNCHANGED <<isTTY, isDeploying, pendingDeploy, stats, isFirstDeploy,
                   deploymentCount, deploys, timeoutId, timers, keysAttached,
                   inputs, sinceSignal, fires, burst, absorbed, chase,
                   unserved, launch, cli, raised, verbose, tally, open, invoked,
                   report, triggers>>
    /\ notes' = <<>>

\* cleanup() resumed when watcher.close() has resolved: the final report and
\* process.exit(0)
CleanupDone ==
    /\ pc = "closing"
    /\ cleanups > 0
    /\ watcher' = "null"
    /\ cleanups' = 0
    /\ exitMessage' = formatExitMessage(deploymentCount, stats)
    /\ exitCode' = 0
    /\ pc' = "exited"
    /\ ev' = [type |-> "exit", arg |-> "0"]
    /\ UNCHANGED <<isTTY, isDeploying, pendingDeploy, stats, isFirstDeploy,
                   deploymentCount, deploys, timeoutId, timers, keysAttached,
                   inputs, sinceSignal, fires, burst, absorbed, chase,
                   unserved, launch, cli, raised, verbose, tally, open, invoked, report, triggers>>
    /\ notes' = <<>>

\* keypress handler whose 'r' goes through the Debounced Trigger
KeyPressedDebounced(name) ==
    /\ keysAttached
    /\ pc \in {"watching", "closing"}
    /\ inputs < MaxInputs
    /\ inputs' = inputs + 1
    /\ ev' = [type |-> "key", arg |-> name]
    /\ notes' = <<>>
    /\ IF name \in {"ctrl-c", "q"}
       THEN /\ raised' = raised + 1
            /\ chase' = NoChase
            /\ UNCHANGED <<pc, watcher, cleanups>>
            /\ UNCHANGED <<timeoutId, timers, sinceSignal, burst, triggers>>
       ELSE IF name = "r"
       THEN /\ debouncedDeploy
            /\ chase' = NoChase
            /\ UNCHANGED raised
            /\ triggers' = triggers + 1
            /\ UNCHANGED <<pc, watcher, cleanups>>
       ELSE UNCHANGED <<pc, watcher, cleanups, raised, timeoutId, timers, sinceSignal,
                        burst, chase, triggers>>
    /\ UNCHANGED <<isTTY, stats, isFirstDeploy, keysAttached, fires,
                   isDeploying, pendingDeploy, deploymentCount, deploys,
                   absorbed, unserved, open, invoked, report,
                   launch, cli, verbose, exitCode, exitMessage, tally>>

\* keypress handler whose 'c' also redeploys
KeyPressedClearRedeploys(name) ==
    /\ keysAttached
    /\ pc \in {"watching", "closing"}
    /\ inputs < MaxInputs
    /\ inputs' = inputs + 1
    /\ ev' = [type |-> "key", arg |-> name]
    /\ IF name \in {"ctrl-c", "q"}
       THEN /\ raised' = raised + 1
            /\ chase' = NoChase
            /\ UNCHANGED <<pc, watcher, cleanups>>
            /\ UNCHANGED <<isDeploying, pendingDeploy, deploymentCount, deploys,
                           absorbed, unserved, open, invoked, report, triggers>>
            /\ notes' = <<>>
       ELSE IF name \in {"r", "c"}
       THEN /\ performDeploy("key")
            /\ chase' = NoChase
            /\ UNCHANGED raised
            /\ triggers' = triggers + 1
            /\ UNCHANGED <<pc, watcher, cleanups>>
       ELSE /\ notes' = <<>>
            /\ UNCHANGED <<pc, watcher, cleanups, raised, isDeploying, pendingDeploy,
                           deploymentCount, deploys, absorbed, chase, unserved,
                           open, invoked, report, triggers>>
    /\ UNCHANGED <<isTTY, stats, isFirstDeploy, timeoutId, timers,
                   keysAttached, sinceSignal, fires, burst,
                   launch, cli, verbose, exitCode, exitMessage, tally>>

\* process.stdin.on("keypress")
KeyPressed(name) ==
    /\ keysAttached
    /\ pc \in {"watching", "closing"}
    /\ inputs < MaxInputs
    /\ inputs' = inputs + 1
    /\ ev' = [type |-> "key", arg |-> name]
    /\ IF name \in {"ctrl-c", "q"}
       THEN /\ raised' = raised + 1
            /\ UNCHANGED <<pc, watcher, cleanups, chase>>
            /\ UNCHANGED <<isDeploying, pendingDeploy, deploymentCount, deploys,
                           absorbed, unserved, open, invoked, report, triggers>>
            /\ notes' = <<>>
       ELSE IF name = "r"
       THEN /\ performDeploy("key")
            /\ chase' = NoChase
            /\ UNCHANGED raised
            /\ triggers' = triggers + 1
            /\ UNCHANGED <<pc, watcher, cleanups>>
       ELSE /\ notes' = <<>>
            /\ UNCHANGED <<pc, watcher, cleanups, raised, isDeploying, pendingDeploy,
                           deploymentCount, deploys, absorbed, chase, unserved,
                           open, invoked, report, triggers>>
    /\ UNCHANGED <<isTTY, stats, isFirstDeploy, timeoutId, timers,
                   keysAttached, sinceSignal, fires, burst,
                   launch, cli, verbose, exitCode, exitMessage, tally>>

\* one millisecond passes
Tick ==
    /\ pc \in {"start", "initialDeploy", "watching", "closing"}
    /\ \A t \in timers : t.delay > 0
    /\ \A i \in 1..Len(deploys) : deploys[i].elapsed < MaxLatency
    /\ timers' = {[t EXCEPT !.delay = @ - 1] : t \in timers}
    /\ deploys' = [i \in 1..Len(deploys) |-> [deploys[i] EXCEPT !.elapsed = @ + 1]]
    /\ sinceSignal' = IF sinceSignal \in 0..DebounceMs
                      THEN sinceSignal + 1
                      ELSE sinceSignal
    /\ ev' = [type |-> "tick", arg |-> "none"]
    /\ UNCHANGED <<pc, isTTY, isDeploying, pendingDeploy, stats, isFirstDeploy,
                   deploymentCount, timeoutId, watcher, keysAttached, cleanups,
                   inputs, fires, burst, absorbed, chase, unserved,
                   launch, cli, raised, verbose, exitCode, exitMessage, tally, open, invoked, report,
                   triggers>>
    /\ notes' = <<>>

Next ==
    \/ Main
    \/ AccountsFetched
    \/ InputEnded
    \/ \E id \in CacheIds : SetCachedAccountId(id)
    \/ ClearCache
    \/ \E code \in ChildCodes : ChildExit(code)
    \/ ChildError
    \/ \E sig \in Signals : Killed(sig)
    \/ InitialDeploy
    \/ \E i \in 1..Len(deploys), ok \in BOOLEAN : DeploySettled(i, ok)
    \/ TimerFired
    \/ \E kind \in EventKinds, filePath \in Paths : WatchEvent(kind, filePath)
    \/ WatchError
    \/ \E own \in BOOLEAN : Signalled(own)
    \/ CleanupDone
    \/ \E name \in KeyNames : KeyPressed(name)
    \/ Tick

Spec == Init /\ [][Next]_vars

\* the steps from the command line to the loop or to the end of the
\* passed-through wrangler
CliNext ==
    \/ Main
    \/ \E code \in ChildCodes : ChildExit(code)
    \/ ChildError
    \/ \E sig \in Signals : Killed(sig)
    \/ InitialDeploy

CliSpec == CliInit /\ [][CliNext]_vars

ParseSpec == ParseInit /\ [][CliNext]_vars

\* a launch in any project and account situation, up to the end of the
\* initial attempt, whatever becomes of its wrangler child and whatever that
\* child writes
ReportInit == InitWith(ReportArgs, AccountLaunches, BOOLEAN)

ReportNext ==
    \/ Main
    \/ AccountsFetched
    \/ InputEnded
    \/ \E id \in CacheIds : SetCachedAccountId(id)
    \/ ClearCache
    \/ \E sig \in Signals : Killed(sig)
    \/ InitialDeploy
    \/ Tick
    \/ \E i \in 1..Len(deploys), child \in DeployChildren,
          out \in WranglerOutputs :
           DeploySettledWith(i, child, OutputReports[out][verbose])

ReportSpec == ReportInit /\ [][ReportNext]_vars

\* a condensed session in a complete project on a terminal, or, without a
\* terminal, a session or a pass-through in a project that has no account
\* id (the session then has its id from the cache)
FairInit ==
    \/ InitWith({<<"deploy", "--yolo">>}, {FullLaunch}, {TRUE})
    \/ InitWith({<<"deploy", "--yolo">>, <<"dev">>},
                {[FullLaunch EXCEPT !.account = NoAccount],
                 [FullLaunch EXCEPT !.account = NoAnswer]},
                {FALSE})

\* the timers of the runtime fire, the Deployer settles, the watcher closes
\* and time passes
FairSpec ==
    /\ FairInit
    /\ [][Next]_vars
    /\ WF_vars(TimerFired)
    /\ WF_vars(\E i \in 1..Len(deploys), ok \in BOOLEAN : DeploySettled(i, ok))
    /\ WF_vars(CleanupDone)
    /\ WF_vars(Tick)

TypeOK ==
    /\ pc \in {"main", "accounts", "passThrough", "start", "initialDeploy",
              "watching",
              "closing", "exited"}
    /\ launch \in AccountLaunches
    /\ accountCache \in {"", SelectedAccount} \cup CacheIds
    /\ raised \in 0..MaxInputs
    /\ verbose \in BOOLEAN
    /\ isDeploying \in BOOLEAN
    /\ pendingDeploy \in BOOLEAN
    /\ deploymentCount \in Nat
    /\ sinceSignal \in -1..(DebounceMs + 1)

(* ------------------------- steps, as seen in ev ------------------------ *)

\* the step just taken called performDeploy() from a debounce firing or 'r'
RequestStep ==
    \/ ev'.type = "fired"
    \/ ev' = [type |-> "key", arg |-> "r"]

\* the step just taken resumed performDeploy() after deploy() settled
SettleStep == ev'.type = "settled"

\* the step just taken called debouncedDeploy()
SignalStep ==
    \/ ev'.arg = "forwarded"
    \/ SettleStep /\ pendingDeploy

(* ------------------------------- claims -------------------------------- *)

\* C1: in every reachable state at most one deploy() invocation has not yet
\* settled, whatever the interleaving of watch events, debounce firings,
\* 'r' commands and completions.
C1_AtMostOneInFlight == Len(deploys) <= 1

\* a request was made while the single attempt was in flight
C1_Witness ==
    /\ Len(deploys) = 1
    /\ isDeploying
    /\ pendingDeploy
    /\ absorbed >= 1

\* C2: after an attempt that absorbed k >= 1 requests has completed, and
\* while no further trigger or termination signal has arrived, either no
\* further attempt has started yet and exactly one firing is scheduled with
\* none in flight, or exactly one further attempt has started and nothing
\* more is scheduled or pending: one follow-up, whatever k is.
C2_Coalescing ==
    chase.k >= 1 =>
        LET n == deploymentCount - chase.base
        IN  /\ n \in {0, 1}
            /\ n = 0 => /\ Cardinality(timers) = 1
                        /\ \A t \in timers : t.delay \in 0..DebounceMs
                        /\ deploys = <<>>
                        /\ ~isDeploying
            /\ n = 1 => /\ timers = {}
                        /\ ~pendingDeploy
                        /\ Len(deploys) <= 1

\* two requests were absorbed and the one follow-up attempt has run
C2_Witness ==
    /\ chase.k >= 2
    /\ deploymentCount = chase.base + 1
    /\ ~isDeploying
    /\ stats.successful + stats.failed = deploymentCount

\* C3, as stated: the step in which an attempt completes with pendingDeploy
\* set starts the follow-up attempt itself.
C3_FollowUpStartsInCompletionStep ==
    [][(SettleStep /\ pendingDeploy) =>
        (isDeploying' /\ deploymentCount' = deploymentCount + 1)]_vars

\* C3, amended: the step in which an attempt completes with pendingDeploy
\* set starts no attempt; it calls the Debounced Trigger, which leaves
\* exactly one firing scheduled DebounceMs after the completion.
C3_FollowUpIsDebounced ==
    [][(SettleStep /\ pendingDeploy) =>
        /\ ~isDeploying'
        /\ deploys' = <<>>
        /\ deploymentCount' = deploymentCount
        /\ pendingDeploy'
        /\ Cardinality(timers') = 1
        /\ \A t \in timers' : t.delay = DebounceMs]_vars

\* an attempt has just completed with pendingDeploy set
C3_Witness ==
    /\ ev.type = "settled"
    /\ pendingDeploy
    /\ ~isDeploying
    /\ timers # {}

\* C4: a failed attempt leaves isDeploying false, adds exactly 1 to
\* stats.failed and nothing to stats.successful, does not end the session
\* (the initial call returns normally and the session is armed), and once an
\* attempt has failed a request made while none is in flight starts the
\* next attempt.
C4_FailureResilience ==
    /\ [][(SettleStep /\ ev'.arg = "failed") =>
            /\ ~isDeploying'
            /\ stats'.failed = stats.failed + 1
            /\ stats'.successful = stats.successful
            /\ pc' = IF pc = "initialDeploy" THEN "watching" ELSE pc]_vars
    /\ [][(RequestStep /\ stats.failed >= 1 /\ ~isDeploying) =>
            /\ isDeploying'
            /\ deploymentCount' = deploymentCount + 1
            /\ Len(deploys') = Len(deploys) + 1]_vars

\* every attempt so far failed and a request has started the next one
C4_Witness ==
    /\ stats.failed >= 1
    /\ stats.successful = 0
    /\ ev.type \in {"fired", "key"}
    /\ isDeploying
    /\ deploymentCount = stats.failed + 1
    /\ pc = "watching"

\* C5: when the Deployer always settles, timers fire and no termination
\* signal arrives, every forwarded watch event is eventually followed by
\* the start of an attempt.
C5_NoLostChange ==
    unserved ~> (~unserved \/ pc \in {"closing", "exited"})

\* without a key listener: the firing for a watch event found an attempt in
\* flight, and the follow-up attempt for it is now running
C5_Witness ==
    /\ ~isTTY
    /\ ~unserved
    /\ chase.k >= 1
    /\ deploymentCount = chase.base + 1
    /\ Len(deploys) = 1
    /\ deploys[1].cause = "fired"
    /\ pc = "watching"

\* C6: a request made while isDeploying is true sets pendingDeploy and
\* nothing else: no deploy() call, no start notification (deploymentCount),
\* isDeploying and stats unchanged.
C6_RequestWhileDeploying ==
    [][(RequestStep /\ isDeploying) =>
        /\ pendingDeploy'
        /\ UNCHANGED <<isDeploying, deploymentCount, stats, deploys>>]_vars

\* a request has just been absorbed by the attempt in flight
C6_Witness ==
    /\ ev.type \in {"fired", "key"}
    /\ isDeploying
    /\ pendingDeploy
    /\ absorbed >= 1
    /\ Len(deploys) = 1

\* C7: deploymentCount starts at 0 and changes only by +1, in exactly the
\* steps that start an attempt.
C7_CounterMonotonic ==
    /\ deploymentCount = 0
    /\ [][/\ deploymentCount' \in {deploymentCount, deploymentCount + 1}
          /\ (deploymentCount' = deploymentCount + 1)
                <=> (Len(deploys') = Len(deploys) + 1)]_vars

\* the third attempt is running after a request was coalesced earlier
C7_Witness ==
    /\ deploymentCount = 3
    /\ Len(deploys) = 1
    /\ stats.successful + stats.failed = 2
    /\ chase.k >= 1

\* C8: a scheduled firing is always due exactly DebounceMs after the last
\* debouncedDeploy() call; every firing happens at that time and leaves no
\* other firing scheduled, so a burst of calls produces one firing.
C8_DebounceCoalescing ==
    /\ [](\A t \in timers : t.delay = DebounceMs - sinceSignal)
    /\ [][ev'.type = "fired" =>
            /\ sinceSignal = DebounceMs
            /\ timers' = {}]_vars

\* a burst of two or more calls has fired
C8_Witness ==
    /\ ev.type = "fired"
    /\ burst >= 2
    /\ sinceSignal = DebounceMs
    /\ timers = {}

\* C9: a debouncedDeploy() call made after the previous timer has fired
\* schedules exactly one new firing DebounceMs later and does not run or
\* repeat the firing that already happened.
C9_IndependentAfterFire ==
    [][(SignalStep /\ timeoutId # 0 /\ timers = {}) =>
        /\ Cardinality(timers') = 1
        /\ \A t \in timers' : t.delay = DebounceMs
        /\ fires' = fires]_vars

\* a call was made while the attempt started by the last firing is running
C9_Witness ==
    /\ ev.arg = "forwarded"
    /\ fires >= 1
    /\ Len(deploys) = 1
    /\ deploys[1].cause = "fired"
    /\ timers # {}
    /\ burst = 1

\* C10: at most one firing is scheduled at any time, and a
\* debouncedDeploy() call does not run performDeploy itself: it starts no
\* attempt and records no request.
C10_OnePendingTimer ==
    /\ [](Cardinality(timers) <= 1)
    /\ [][SignalStep =>
            /\ timers' # {}
            /\ UNCHANGED <<pendingDeploy, deploymentCount, fires, absorbed>>
            /\ Len(deploys') <= Len(deploys)]_vars

\* a call has replaced the firing scheduled by the call before it
C10_Witness ==
    /\ burst >= 2
    /\ Cardinality(timers) = 1
    /\ \A t \in timers : t.id = timeoutId /\ t.delay = DebounceMs - sinceSignal

\* C11: the initial deploy is performed exactly once; while it is in flight
\* no key listener is attached, no watcher is armed, no file event or key
\* command has been processed and pendingDeploy is not set; the listener
\* and the watcher exist only once an attempt has settled.
C11_StartupOrdering ==
    /\ [](\A i \in 1..Len(deploys) :
            deploys[i].cause = "initial" =>
                /\ deploymentCount = 1
                /\ ~keysAttached
                /\ watcher = "null"
                /\ ~pendingDeploy
                /\ absorbed = 0
                /\ triggers = 0
                /\ timers = {})
    /\ []((keysAttached \/ watcher # "null") => tally.a + tally.b >= 1)
    /\ [][ev'.type = "initial" =>
            /\ deploymentCount = 0
            /\ deploymentCount' = 1
            /\ Len(deploys') = 1]_vars

\* the initial attempt has just failed and the session is armed
C11_Witness ==
    /\ ev = [type |-> "settled", arg |-> "failed", child |-> ChildFailed]
    /\ pc = "watching"
    /\ watcher = "open"
    /\ keysAttached
    /\ deploymentCount = 1
    /\ stats.failed = 1

\* C12: an 'r' key processed while no attempt is in flight starts an
\* attempt in that very step and touches no timer; processed while an
\* attempt is in flight it sets pendingDeploy and starts nothing.
C12_ManualBypassesDebounce ==
    [][(ev'.type = "key" /\ ev'.arg = "r") =>
        /\ UNCHANGED <<timers, timeoutId, sinceSignal>>
        /\ IF isDeploying
           THEN /\ pendingDeploy'
                /\ UNCHANGED <<isDeploying, deploymentCount, deploys>>
           ELSE /\ isDeploying'
                /\ deploymentCount' = deploymentCount + 1
                /\ deploys' = Append(deploys, [elapsed |-> 0, cause |-> "key"])]_vars

\* 'r' has started an attempt while a debounce timer is still pending
C12_Witness ==
    /\ ev = [type |-> "key", arg |-> "r"]
    /\ Len(deploys) = 1
    /\ deploys[1] = [elapsed |-> 0, cause |-> "key"]
    /\ timers # {}

\* C13: a step makes at most one deploy notification; a start notification
\* is made exactly when an attempt starts, only while no earlier start is
\* waiting for its outcome, and an outcome notification exactly when an
\* attempt settles, with the kind of that outcome and the number of the
\* start that is waiting; a start is waiting exactly while an attempt is
\* in flight.
C13_CoherentStream ==
    /\ [](Len(notes) <= 1)
    /\ [](Len(deploys) = IF open # 0 THEN 1 ELSE 0)
    /\ [][(Len(deploys') > Len(deploys)) <=>
            (notes' # <<>> /\ notes'[1].kind = "start")]_vars
    /\ [][SettleStep <=>
            (notes' # <<>> /\ notes'[1].kind \in {"success", "failure"})]_vars
    /\ [][(notes' # <<>> /\ notes'[1].kind = "start") =>
            /\ open = 0
            /\ notes'[1].n = deploymentCount'
            /\ open' = notes'[1].n]_vars
    /\ [][SettleStep =>
            /\ open # 0
            /\ notes'[1].n = open
            /\ notes'[1].kind = (IF ev'.arg = "ok" THEN "success" ELSE "failure")
            /\ open' = 0]_vars

\* deployment #1 succeeded and deployment #2 has just been reported failed
C13_Witness ==
    /\ notes = <<[kind |-> "failure", n |-> 2]>>
    /\ open = 0
    /\ deploymentCount = 2
    /\ tally.a = 1
    /\ tally.b = 1

\* C14, as stated: a forwarded watch event goes without a file-change
\* notification only in non-verbose mode while an attempt is in flight; in
\* verbose mode every forwarded event is notified; the event reaches the
\* Debounced Trigger in all cases.
C14_SuppressedOnlyWhenCondensed ==
    [][ev'.arg = "forwarded" =>
        /\ ~ev'.shown => (~verbose /\ isDeploying)
        /\ verbose => ev'.shown
        /\ \E t \in timers' : t.delay = DebounceMs]_vars

\* C14, amended: a forwarded watch event goes without a file-change
\* notification exactly when it is a modification processed in verbose mode
\* while an attempt is in flight; additions and removals, and every event in
\* non-verbose mode, are notified; the event reaches the Debounced Trigger
\* in all cases.
C14_SuppressedOnlyWhenVerbose ==
    [][ev'.arg = "forwarded" =>
        /\ ~ev'.shown <=> (ev'.type = "change" /\ verbose /\ isDeploying)
        /\ sinceSignal' = 0
        /\ \E t \in timers' : t.delay = DebounceMs /\ t.id = timeoutId']_vars

\* a modification processed in verbose mode during an attempt was not
\* notified and has scheduled a firing
C14_Witness ==
    /\ ev = [type |-> "change", arg |-> "forwarded", shown |-> FALSE,
             path |-> SrcPath]
    /\ verbose
    /\ isDeploying
    /\ \E t \in timers : t.delay = DebounceMs

\* C15: the stats equal the tally of the settled attempts (a successes, b
\* failures, the sum of all their durations); a completion adds exactly 1 to
\* exactly one of the two counters, no other step changes the stats, and no
\* field ever decreases or is reset.
C15_StatsArithmetic ==
    /\ [](/\ stats.successful = tally.a
          /\ stats.failed = tally.b
          /\ stats.totalTime = tally.time)
    /\ [][SettleStep =>
            \/ /\ stats'.successful = stats.successful + 1
               /\ stats'.failed = stats.failed
            \/ /\ stats'.successful = stats.successful
               /\ stats'.failed = stats.failed + 1]_vars
    /\ [][~SettleStep => stats' = stats]_vars
    /\ [][/\ stats'.successful >= stats.successful
           /\ stats'.failed >= stats.failed
           /\ stats'.totalTime >= stats.totalTime
           /\ stats.lastDeployTime = "Date" => stats'.lastDeployTime = "Date"]_vars

\* a success and a failure, each of non-zero duration, have been recorded
C15_Witness ==
    /\ ev.type = "settled"
    /\ stats.successful = 1
    /\ stats.failed = 1
    /\ stats.totalTime >= 2
    /\ tally.time = stats.totalTime

\* C16: a step that starts an attempt leaves pendingDeploy false and
\* isDeploying true, and pendingDeploy turns true only in a step that
\* processes a deploy request while isDeploying is true.
C16_PendingDeploy ==
    /\ [][(Len(deploys') > Len(deploys) \/ (~isDeploying /\ isDeploying')) =>
            (~pendingDeploy' /\ isDeploying')]_vars
    /\ [][(~pendingDeploy /\ pendingDeploy') =>
            (RequestStep /\ isDeploying /\ isDeploying')]_vars

\* the follow-up attempt has just started, after a completion that left
\* pendingDeploy set
C16_Witness ==
    /\ ev.type = "fired"
    /\ chase.k >= 1
    /\ deploymentCount = chase.base + 1
    /\ Len(deploys) = 1
    /\ deploys[1].elapsed = 0
    /\ ~pendingDeploy

\* C17: a session ended by an interrupt or termination signal has closed
\* its watcher, printed the final report with the cumulative stats and
\* exited with code 0.
C17_GracefulShutdown ==
    (pc = "exited" /\ deploymentCount >= 1
        /\ ev.type \in {"signal", "exit"}) =>
        /\ watcher = "null"
        /\ exitMessage = formatExitMessage(deploymentCount, stats)
        /\ exitCode = 0

\* C18: a launch that finds no wrangler, or a YOLO launch that finds no
\* entry file or no worker name, ends in main with exit code 1 and its
\* reason, with no attempt started and no watcher; a session exists only
\* after a launch that found all three.
C18_StartupFatal ==
    /\ [][(pc = "main" /\ pc' # "main" /\
            (~launch.wrangler \/
             (parseArgs(argv).yolo /\ (~launch.entry \/ ~launch.name)))) =>
            /\ pc' = "exited"
            /\ exitCode' = 1
            /\ ev'.arg \in {"noWrangler", "noConfig", "noEntry", "noName"}
            /\ deploymentCount' = 0
            /\ deploys' = <<>>
            /\ watcher' = "null"]_vars
    /\ []((pc \in {"start", "initialDeploy", "watching", "closing"}
            \/ deploymentCount > 0 \/ watcher # "null") =>
            (launch.wrangler /\ launch.entry /\ launch.name))

\* a YOLO launch with everything but a worker name has exited with code 1
C18_Witness ==
    /\ pc = "exited"
    /\ exitCode = 1
    /\ ev = [type |-> "main", arg |-> "noName"]
    /\ launch.wrangler /\ parseArgs(argv).yolo /\ launch.config /\ launch.entry
    /\ ~launch.name
    /\ deploymentCount = 0
    /\ watcher = "null"

\* C19: an attempt starts only in the initial step, a debounce firing or an
\* 'r' command; the attempts started never exceed 1 plus the forwarded
\* file events and 'r' commands; a firing is scheduled only by a forwarded
\* file event or by a completion that finds pendingDeploy set, and a
\* completion that finds it clear, failed or not, schedules and starts
\* nothing.
C19_NoRetries ==
    /\ [](deploymentCount <= 1 + triggers)
    /\ [][(Len(deploys') > Len(deploys) \/ deploymentCount' # deploymentCount) =>
            \/ ev'.type \in {"initial", "fired"}
            \/ ev'.type = "key" /\ ev'.arg = "r"]_vars
    /\ [][(\E t \in timers' : t \notin timers /\ t.delay = DebounceMs) =>
            SignalStep]_vars
    /\ [][(SettleStep /\ ~pendingDeploy) =>
            /\ UNCHANGED <<timers, timeoutId, deploymentCount>>
            /\ ~isDeploying'
            /\ Len(deploys') < Len(deploys)]_vars

\* the second attempt has failed with nothing pending and nothing scheduled
C19_Witness ==
    /\ ev = [type |-> "settled", arg |-> "failed", child |-> ChildFailed]
    /\ ~pendingDeploy
    /\ timers = {}
    /\ deploys = <<>>
    /\ deploymentCount = 2
    /\ stats.failed >= 1
    /\ pc = "watching"

\* C20: the step that handles a watcher error changes nothing of the
\* program state, and the watcher stays open in a watching session.
C20_WatcherErrorOnlyLogged ==
    /\ [][ev'.type = "watchError" =>
            UNCHANGED <<prog, sinceSignal, fires, burst, absorbed, unserved,
                        triggers>>]_vars
    /\ [](ev.type = "watchError" => (watcher = "open" /\ pc = "watching"))

\* a watcher error was handled while an attempt is in flight and a firing
\* is scheduled
C20_Witness ==
    /\ ev.type = "watchError"
    /\ isDeploying
    /\ Len(deploys) = 1
    /\ timers # {}
    /\ watcher = "open"

\* C21: a watch event of any kind whose path lies in a .wrangler directory,
\* spelled with '/' or with '\\', is not notified as a file change, does
\* not call the Debounced Trigger and starts or requests no attempt.
C21_CacheDirExcluded ==
    [][(ev'.type \in EventKinds /\
        (Includes(ev'.path, WranglerDir \o <<"/">>) \/
         Includes(ev'.path, WranglerDir \o <<"\\">>))) =>
        /\ ~ev'.shown
        /\ ev'.arg \in {"ignored", "skipped"}
        /\ UNCHANGED <<timers, timeoutId, sinceSignal, burst, triggers,
                       isDeploying, pendingDeploy, deploymentCount, deploys,
                       unserved>>]_vars

\* a removal inside .wrangler reached the handler and was dropped there
\* while a session with a successful deploy is idle
C21_Witness ==
    /\ ev = [type |-> "unlink", arg |-> "skipped", shown |-> FALSE,
             path |-> RelCachePath]
    /\ timers = {}
    /\ ~isDeploying
    /\ deploymentCount = 1
    /\ inputs = 1

\* C22: the keys 'c', 's', 'h' and '?' make no deploy notification and
\* change nothing of the scheduling state or the stats, whether or not an
\* attempt is in flight.
C22_PresentationKeys ==
    [][(ev'.type = "key" /\ ev'.arg \in {"c", "s", "h", "?"}) =>
        /\ notes' = <<>>
        /\ UNCHANGED <<isDeploying, pendingDeploy, deploymentCount, stats,
                       deploys, timers, timeoutId, sinceSignal, absorbed,
                       triggers, pc, watcher>>]_vars

\* 'c' was pressed while an attempt is in flight and a firing is scheduled
C22_Witness ==
    /\ ev = [type |-> "key", arg |-> "c"]
    /\ isDeploying
    /\ Len(deploys) = 1
    /\ timers # {}

\* C30: pendingDeploy implies that an attempt is in flight or that a
\* debounce firing is scheduled.
C30_PendingNeverStranded ==
    pendingDeploy => (isDeploying \/ timers # {})

\* the attempt that absorbed a request has settled: pendingDeploy is still
\* set, nothing is in flight and the follow-up firing is scheduled
C30_Witness ==
    /\ pendingDeploy
    /\ ~isDeploying
    /\ deploys = <<>>
    /\ Cardinality(timers) = 1
    /\ ev.type = "settled"

\* C23: deployParams is what handleYoloMode built from the command line and
\* the configuration, no step after main changes it, and every deploy()
\* invocation, whatever called performDeploy, was given exactly that value.
C23_ParamsReadOnly ==
    /\ [][pc # "main" => deployParams' = deployParams]_vars
    /\ [](pc \in {"start", "initialDeploy", "watching", "closing"} =>
            deployParams = buildDeployParams(parseArgs(argv), launch))
    /\ [](invoked \subseteq {deployParams})
    /\ [][Len(deploys') > Len(deploys) => deployParams \in invoked']_vars

\* the third attempt of a `--minify` session, a manual one after an initial
\* and a debounced one, has just been invoked with the startup parameters
C23_Witness ==
    /\ ev = [type |-> "key", arg |-> "r"]
    /\ deploymentCount = 3
    /\ triggers = 2
    /\ Len(deploys) = 1
    /\ deployParams.minify
    /\ invoked = {deployParams}

\* startYoloMode has been called
LoopEntered == pc \in {"start", "initialDeploy", "watching", "closing"}

\* the flags of parseArgs that take the next word as their value
ValueFlags ==
    {"--name", "--env", "-e", "--compatibility-date",
     "--compatibility-flags", "--config", "-c"}

\* the words of the command line that do not start with a dash
Positional(args) == SelectSeq(args, LAMBDA a : ~StartsWith(a, "-"))

\* startYoloMode has been called, whether or not the process still runs
LoopWasEntered == LoopEntered \/ deploymentCount >= 1

\* C27: in a complete project, once main has routed the command line, the
\* loop has been entered if and only if the parsed command is "deploy" and
\* the parsed --yolo flag is set (on a command line without value-taking
\* flags: its first word without a dash is "deploy" and "--yolo" occurs in
\* it); otherwise wrangler was spawned with exactly the original arguments,
\* and the exit code wrangler reports becomes the exit code of the process.
C27_CliRouting ==
    /\ [](pc # "main" =>
            (LoopWasEntered <=>
                (parseArgs(argv).command = "deploy" /\ parseArgs(argv).yolo)))
    /\ []((pc # "main" /\ \A k \in 1..Len(argv) : argv[k] \notin ValueFlags) =>
            (LoopWasEntered <=>
                /\ Positional(argv) # <<>>
                /\ Head(Positional(argv)) = "deploy"
                /\ \E k \in 1..Len(argv) : argv[k] = "--yolo"))
    /\ [](pc # "main" /\ ~LoopWasEntered => passArgs = argv)
    /\ [](LoopWasEntered => passArgs = <<>>)
    /\ [][(ev'.type = "childExit" /\ ev'.code # NullCode) =>
            (pc' = "exited" /\ exitCode' = ev'.code)]_vars

\* `dev --yolo` was passed through and wrangler's exit code 2 is the exit
\* code of the process
C27_Witness ==
    /\ argv = <<"dev", "--yolo">>
    /\ passArgs = <<"dev", "--yolo">>
    /\ ev = [type |-> "childExit", arg |-> "code", code |-> 2]
    /\ pc = "exited"
    /\ exitCode = 2

\* the indices of the command line at which parseArgs reads a flag
RECURSIVE flagPositions(_, _)
flagPositions(args, i) ==
    IF i > Len(args) THEN {}
    ELSE IF ~StartsWith(args[i], "-") THEN flagPositions(args, i + 1)
    ELSE IF args[i] \in ValueFlags THEN {i} \cup flagPositions(args, i + 2)
    ELSE {i} \cup flagPositions(args, i + 1)

\* wrangler deploy flags without a value, and those with one
SwitchFlags == {"--minify", "--no-bundle", "--dry-run", "--keep-vars"}

\* the long form of a wrangler deploy flag
LongForm(flag) ==
    IF flag = "-e" THEN "--env"
    ELSE IF flag = "-c" THEN "--config"
    ELSE flag

\* C28: every wrangler deploy flag read from a `deploy --yolo` command line
\* occurs in the argument list of every wrangler deploy invocation of the
\* loop: a switch as itself, a flag with a value (given once, or
\* --compatibility-flags) in its long form followed by that value.
C28_EveryFlagTakesEffect ==
    \A p \in invoked : \A k \in flagPositions(argv, 1) :
        LET out == deployArgs(p)
        IN  /\ argv[k] \in SwitchFlags =>
                \E j \in 1..Len(out) : out[j] = argv[k]
            /\ (/\ argv[k] \in ValueFlags
                 /\ k < Len(argv)
                 /\ \/ argv[k] = "--compatibility-flags"
                    \/ \A h \in flagPositions(argv, 1) \ {k} :
                           LongForm(argv[h]) # LongForm(argv[k])) =>
                \E j \in 1..(Len(out) - 1) :
                    /\ out[j] = LongForm(argv[k])
                    /\ out[j + 1] = argv[k + 1]

\* C29: when a debounce firing that serves a forwarded watch event starts
\* an attempt, the start notification carries a file-change descriptor.
C29_StartCarriesChange ==
    [][(/\ unserved
        /\ ev'.type = "fired"
        /\ notes' # <<>>
        /\ notes'[1].kind = "start") =>
            notes'[1].change # NoChange]_vars

\* some detail line of the last success notification starts with prefix
HasLine(prefix) ==
    \E j \in 1..Len(report.lines) : StartsWith(report.lines[j], prefix)

\* a main URL that parseWranglerOutput can extract and whose hostname has
\* fewer than three segments
ShortHostUrls == {"https://example.com/a.workers.dev"}

\* C24: in condensed mode, a success notification for the main URL
\* https://<worker>.<account>.workers.dev<path> and a version id prints the
\* preview URL https://<first segment of the id>-<worker>.<account>
\* .workers.dev<path>, the path being / when the URL has none; for a main
\* URL with fewer than three hostname segments it prints no preview line.
C24_PreviewUrl ==
    (~verbose /\ report.versionId # "") =>
        /\ \A w \in WorkerNames, a \in AccountNames, p \in UrlPaths :
               report.url = "https://" \o w \o "." \o a \o ".workers.dev" \o p =>
                   \E j \in 1..Len(report.lines) :
                       report.lines[j] =
                           "Preview: https://"
                               \o (IF report.versionId =
                                          "0a1b2c3d-0000-4000-8000-00000000000f"
                                   THEN "0a1b2c3d" ELSE "982b47f4")
                               \o "-" \o w \o "." \o a \o ".workers.dev"
                               \o (IF p = "" THEN "/" ELSE p)
        /\ report.url \in ShortHostUrls => ~HasLine("Preview: ")

\* the example of the specification has been printed
C24_Witness ==
    /\ ~verbose
    /\ report.url = "https://my-worker.acct.workers.dev/"
    /\ report.versionId = "982b47f4-5d2d-471b-a084-508acc7a2bc4"
    /\ report.lines =
           <<"Worker: https://my-worker.acct.workers.dev/",
             "Preview: https://982b47f4-my-worker.acct.workers.dev/",
             "Version: 982b47f4-5d2d-471b-a084-508acc7a2bc4">>

\* C25: when the Deployer resolves, whatever URL and version id it resolves
\* with, the step counts one success and no failure and makes the success
\* notification; in condensed mode a missing URL is shown as N/A, which is
\* not parseable, and gives no preview line.
C25_ReporterDegrades ==
    [][(ev'.type = "settled" /\ ev'.arg = "ok") =>
        /\ stats'.successful = stats.successful + 1
        /\ stats'.failed = stats.failed
        /\ Len(notes') = 1
        /\ notes'[1].kind = "success"
        /\ (~verbose /\ report'.url = "") =>
               /\ report'.lines[1] = "Worker: N/A"
               /\ \A j \in 1..Len(report'.lines) :
                      ~StartsWith(report'.lines[j], "Preview: ")]_vars

\* a deploy that resolved with a version id and no URL has been counted as
\* a success and reported without a preview line
C25_Witness ==
    /\ ev = [type |-> "settled", arg |-> "ok", child |-> ChildSucceeded]
    /\ ~verbose
    /\ stats.successful = 1
    /\ stats.failed = 0
    /\ report = [url |-> "",
                 versionId |-> "0a1b2c3d-0000-4000-8000-00000000000f",
                 lines |-> <<"Worker: N/A",
                             "Version: 0a1b2c3d-0000-4000-8000-00000000000f">>]

\* C26: in a session without keyboard whose inputs so far were all
\* forwarded watch events, there are at most as many attempts as events
\* after the initial one; while an event is unserved and nothing is in
\* flight exactly one firing is scheduled, at most DebounceMs ahead; a
\* failed attempt leaves the loop watching; and once every event has had
\* its attempt and all attempts have settled, the loop is idle with its
\* watcher open, the stats counting every attempt.
C26_EndToEnd ==
    /\ []((~isTTY /\ pc = "watching" /\ triggers = inputs) =>
            /\ deploymentCount <= 1 + triggers
            /\ (unserved /\ ~isDeploying) =>
                   /\ Cardinality(timers) = 1
                   /\ \A t \in timers : t.delay \in 0..DebounceMs
                   /\ deploymentCount <= triggers
            /\ (deploymentCount = 1 + triggers
                    /\ tally.a + tally.b = deploymentCount) =>
                   /\ watcher = "open"
                   /\ ~isDeploying
                   /\ ~pendingDeploy
                   /\ timers = {}
                   /\ deploys = <<>>
                   /\ stats.successful + stats.failed = deploymentCount
                   /\ stats.failed = tally.b)
    /\ [][(pc = "watching" /\ ev'.type = "settled" /\ ev'.arg = "failed") =>
            (pc' = "watching" /\ watcher' = "open"
                /\ stats'.failed = stats.failed + 1)]_vars

\* two watch events, each followed by its own attempt, three attempts
\* settled of which one failed, and the loop is idle and watching
C26_Witness ==
    /\ ~isTTY
    /\ pc = "watching"
    /\ watcher = "open"
    /\ inputs = 2
    /\ triggers = 2
    /\ deploymentCount = 3
    /\ stats.successful = 2
    /\ stats.failed = 1
    /\ ev = [type |-> "settled", arg |-> "ok", child |-> ChildSucceeded]
    /\ ~isDeploying
    /\ ~pendingDeploy
    /\ timers = {}
    /\ exitCode = -1

\* C31: deploymentCount is the number of counted outcomes plus one while an
\* attempt is in flight; the count of the exit message is the counter at
\* that moment; lastDeployTime is set exactly when an outcome was counted.
C31_CountMatchesStats ==
    /\ deploymentCount =
           stats.successful + stats.failed + (IF isDeploying THEN 1 ELSE 0)
    /\ isDeploying <=> Len(deploys) = 1
    /\ exitMessage # NoExitMessage =>
           /\ exitMessage.count = deploymentCount
           /\ exitMessage.count - (stats.successful + stats.failed) \in {0, 1}
    /\ stats.lastDeployTime # "undefined" <=>
           stats.successful + stats.failed > 0

\* the session has ended with an attempt in flight: the exit message counts
\* two deployments, the stats one outcome
C31_Witness ==
    /\ pc = "exited"
    /\ exitCode = 0
    /\ isDeploying
    /\ exitMessage.count = 2
    /\ stats.successful + stats.failed = 1
    /\ stats.lastDeployTime = "Date"

\* C32: once cleanup has been called, no step starts a deploy attempt.
C32_NoAttemptAfterSignal ==
    [][pc = "closing" =>
        (deploymentCount' = deploymentCount /\ Len(deploys') <= Len(deploys))]_vars

\* C33: while the follow-up of a completed attempt is scheduled and not yet
\* started, a forwarded watch event starts no attempt and leaves exactly one
\* timer, DebounceMs ahead; the firing that follows comes DebounceMs after
\* the last debouncedDeploy() call, starts the one follow-up attempt and
\* leaves nothing scheduled or pending.
C33_SharedTimer ==
    /\ [][(pendingDeploy /\ ~isDeploying /\ ev'.type \in EventKinds
             /\ ev'.arg = "forwarded") =>
            /\ \E t \in timers' : timers' = {t} /\ t.delay = DebounceMs
            /\ deploymentCount' = deploymentCount
            /\ pendingDeploy'
            /\ ~isDeploying']_vars
    /\ [][(pendingDeploy /\ ~isDeploying /\ ev'.type = "fired") =>
            /\ sinceSignal = DebounceMs
            /\ deploymentCount' = deploymentCount + 1
            /\ Len(deploys') = 1
            /\ timers' = {}
            /\ ~pendingDeploy']_vars

\* a watch event has arrived while the follow-up firing was scheduled: the
\* burst counts the resumption and the event, and one timer is pending
C33_Witness ==
    /\ pendingDeploy
    /\ ~isDeploying
    /\ ev.type = "change"
    /\ ev.arg = "forwarded"
    /\ burst = 2
    /\ sinceSignal = 0
    /\ \E t \in timers : timers = {t} /\ t.delay = DebounceMs

\* C34: the exit step happens in a closing session that has printed no final
\* report yet, prints it and ends the process with code 0, however many
\* cleanup() invocations await the watcher; nothing is printed after it.
C34_SignalsOnce ==
    /\ [][ev'.type = "exit" =>
            /\ pc = "closing"
            /\ exitMessage = NoExitMessage
            /\ exitMessage' = formatExitMessage(deploymentCount, stats)
            /\ pc' = "exited"
            /\ exitCode' = 0]_vars
    /\ [][pc = "exited" => exitMessage' = exitMessage]_vars
    /\ [](cleanups >= 1 => (pc = "closing" /\ watcher = "closed"))

\* two keys ('q', Ctrl-C) or a key and a signal from outside: the listener
\* has run for the SIGINT of the second and two cleanup() invocations await
\* watcher.close()
C34_Witness ==
    /\ pc = "closing"
    /\ cleanups = 2
    /\ inputs = 2
    /\ raised = 0
    /\ ev = [type |-> "signal", arg |-> "own"]
    /\ exitMessage = NoExitMessage
    /\ exitCode = -1

\* C35: the step in which a deploy() call settles takes that one invocation
\* out of flight and counts exactly one outcome: a success if and only if
\* the wrangler child exited with code 0, a failure for every other exit
\* code, for a child ended by a signal, for a spawn error and for a
\* wrangler that cannot be resolved.
C35_DeployerNormalises ==
    [][ev'.type = "settled" =>
        /\ Len(deploys) = 1
        /\ deploys' = <<>>
        /\ ev'.arg \in {"ok", "failed"}
        /\ ev'.arg = "ok" <=> ev'.child = [kind |-> "exit", code |-> 0]
        /\ stats'.successful =
               stats.successful + (IF ev'.arg = "ok" THEN 1 ELSE 0)
        /\ stats'.failed = stats.failed + (IF ev'.arg = "ok" THEN 0 ELSE 1)
        /\ Len(notes') = 1
        /\ notes'[1].kind = (IF ev'.arg = "ok" THEN "success" ELSE "failure")]_vars

\* the wrangler child of the initial attempt was ended by a signal and the
\* attempt has been counted as failed
C35_Witness ==
    /\ ev = [type |-> "settled", arg |-> "failed",
             child |-> [kind |-> "exit", code |-> NullCode]]
    /\ stats.successful = 0
    /\ stats.failed = 1
    /\ deploys = <<>>
    /\ notes = <<[kind |-> "failure", n |-> 1]>>

\* handleYoloMode gets as far as resolving the account id: the command is
\* deploy --yolo and wrangler, the config and the entry file were found
\* and a worker name is given by flag or config
AccountStageReached ==
    /\ launch.wrangler
    /\ launch.config
    /\ launch.entry
    /\ OrElse(parseArgs(argv).name, loadConfig(launch).name) # ""
    /\ parseArgs(argv).command = "deploy"
    /\ parseArgs(argv).yolo

\* C36: when handleYoloMode starts the loop, the account id of deployParams
\* is the one of the config if it has one, else the cached one if there is
\* one, else the selected one, and every attempt is invoked with it;
\* handleYoloMode writes the cache only with a selected id, in a launch that
\* found none in the config or in the cache; and a process whose launch
\* reached the account resolution and got no id from any of the three makes
\* no deploy attempt and, once it has ended, has ended with a non-zero code.
C36_AccountPrecedence ==
    /\ [](LoopEntered =>
           /\ AccountStageReached
           /\ deployParams.accountId # ""
           /\ launch.account.config # "" =>
                  deployParams.accountId = launch.account.config
           /\ (launch.account.config = "" /\ launch.account.cache # "") =>
                  deployParams.accountId = launch.account.cache
           /\ (launch.account.config = "" /\ launch.account.cache = "") =>
                  /\ launch.account.fetch = "selected"
                  /\ deployParams.accountId = SelectedAccount
           /\ \A p \in invoked : p.accountId = deployParams.accountId)
    /\ [][(accountCache' # accountCache /\ ev'.type # "cache") =>
           /\ ev'.type = "accounts"
           /\ AccountStageReached
           /\ launch.account.config = ""
           /\ launch.account.cache = ""
           /\ launch.account.fetch = "selected"
           /\ accountCache' = SelectedAccount
           /\ deployParams'.accountId = SelectedAccount]_vars
    /\ []((/\ AccountStageReached
           /\ launch.account.config = ""
           /\ launch.account.cache = ""
           /\ launch.account.fetch # "selected") =>
              /\ deploymentCount = 0
              /\ invoked = {}
              /\ ~LoopEntered
              /\ pc = "exited" => exitCode \notin {-1, 0})

\* the flags parseArgs names
RecognisedFlags ==
    ValueFlags \cup {"--yolo", "--verbose", "-v", "--minify", "--no-bundle",
                     "--dry-run"}

\* the indices of the values taken by the value-taking flags
valuePositions(args) ==
    {i + 1 : i \in {j \in flagPositions(args, 1) :
                        args[j] \in ValueFlags /\ j + 1 <= Len(args)}}

\* in order, the values given to the flags in the set flags
valuesOf(args, flags) ==
    LET at == SelectSeq([i \in 1..Len(args) |-> i],
                        LAMBDA i : /\ i \in flagPositions(args, 1)
                                   /\ args[i] \in flags
                                   /\ i + 1 <= Len(args))
    IN  [k \in 1..Len(at) |-> args[at[k] + 1]]

\* the last of a sequence of values, "" when there is none
lastOf(values) == IF values = <<>> THEN "" ELSE values[Len(values)]

\* C37: parseArgs returns on every argument list and accounts for each
\* argument once: the command is the first word that is neither a flag nor
\* the value of a flag, the entry point is the second such word when the
\* command is "deploy", every named flag sets its field, a value-taking flag
\* takes the argument after it and leaves its field unset when it is last,
\* and remainingArgs holds every other argument, in order.
C37_EachArgumentOnce ==
    pc # "main" =>
        LET p == parseArgs(argv)
            w == SelectSeq([i \in 1..Len(argv) |-> i],
                           LAMBDA i : i \notin valuePositions(argv)
                                      /\ ~StartsWith(argv[i], "-"))
            r == SelectSeq([i \in 1..Len(argv) |-> i],
                           LAMBDA i :
                               /\ i \notin valuePositions(argv)
                               /\ IF StartsWith(argv[i], "-")
                                  THEN argv[i] \notin RecognisedFlags
                                  ELSE /\ i # w[1]
                                       /\ ~(/\ Len(w) >= 2
                                             /\ argv[w[1]] = "deploy"
                                             /\ i = w[2]))
            read == flagPositions(argv, 1)
        IN  /\ p.command = (IF w = <<>> THEN "" ELSE argv[w[1]])
            /\ p.entryPoint = (IF Len(w) >= 2 /\ argv[w[1]] = "deploy"
                               THEN argv[w[2]]
                               ELSE "")
            /\ p.remainingArgs = [k \in 1..Len(r) |-> argv[r[k]]]
            /\ p.yolo <=> \E i \in read : argv[i] = "--yolo"
            /\ p.verbose <=> \E i \in read : argv[i] \in {"--verbose", "-v"}
            /\ p.minify <=> \E i \in read : argv[i] = "--minify"
            /\ p.noBundle <=> \E i \in read : argv[i] = "--no-bundle"
            /\ p.dryRun <=> \E i \in read : argv[i] = "--dry-run"
            /\ p.name = lastOf(valuesOf(argv, {"--name"}))
            /\ p.env = lastOf(valuesOf(argv, {"--env", "-e"}))
            /\ p.compatibilityDate =
                   lastOf(valuesOf(argv, {"--compatibility-date"}))
            /\ p.compatibilityFlags =
                   valuesOf(argv, {"--compatibility-flags"})
            /\ p.config = lastOf(valuesOf(argv, {"--config", "-c"}))

====
